---- MODULE Spec2Model ----
(***************************************************************************)
(* Model of the s-expr crate: the UTF-8 code-point decoder (utf8.rs), the   *)
(* position tracker (loc.rs), the tokenizer (tokenizer.rs), the             *)
(* group-balancing parser (parser.rs), the number conversions (data.rs) and *)
(* the printer (printer.rs).                                                *)
(*                                                                          *)
(* A buffer is a sequence of bytes (0..255); byte offsets are 0-based as in *)
(* the source, so byte i of the source is data[i + 1] here.  A text payload *)
(* (&str slice) is the sequence of its bytes.                               *)
(***************************************************************************)
EXTENDS Integers, Sequences, FiniteSets, TLC

VARIABLES
    tokenizer,  \* the Tokenizer struct: data, index, position, cfg
    owner,      \* which object the caller drives: "Tokenizer", "Parser" or "Printer"
    unicode,    \* whether the crate is built with the "unicode" feature
    result,     \* what the last call to next returned ("Start" before any call)
    before,     \* index and position of the tokenizer when the last call began
    history,    \* what the calls before the last one returned, oldest first
    converted,  \* digits() and to_u64() of the number the last call returned, once
                \* the caller has asked for them
    printer,    \* the Printer struct: buf, prev
    calls,      \* the calls made on the printer, oldest first, each with the
                \* length of buf when it was made
    decoder     \* a direct use of next_char: the buffer, the byte offset, and what
                \* the call returned

vars ==
    <<tokenizer, owner, unicode, result, before, history, converted, printer, calls,
      decoder>>

(***************************************************************************)
(* Characters of the source, as code points.                                *)
(***************************************************************************)
ChNewline == 10
ChTab == 9
ChSpace == 32
ChLParen == 40
ChRParen == 41
ChLBracket == 91
ChRBracket == 93
ChLBrace == 123
ChRBrace == 125
ChSemicolon == 59
ChQuote == 34
ChBackslash == 92
ChHash == 35
ChDot == 46
ChUnderscore == 95
ChZero == 48
ChOne == 49
ChLowerB == 98
ChLowerX == 120

GroupKind == {"Paren", "Brace", "Bracket"}

(***************************************************************************)
(* loc.rs                                                                   *)
(***************************************************************************)
PositionDefault == [line |-> 1, col |-> 0]

advance_line(p) == [line |-> p.line + 1, col |-> 0]

advance_col(p) == [line |-> p.line, col |-> p.col + 1]

\* mutant of advance: a newline advances the column like any other character
advance_col_only(p, c) == advance_col(p)

advance(p, c) == IF c = ChNewline THEN advance_line(p) ELSE advance_col(p)

\* mutant of extend: the start of the other span and the end of this one
extend_crossed(self, other) == [start |-> other.start, end |-> self.end]

extend(self, other) == [start |-> self.start, end |-> other.end]

(***************************************************************************)
(* utf8.rs                                                                  *)
(***************************************************************************)
utf8_char_width(b) ==
    IF b < 128 THEN 1
    ELSE IF b < 194 THEN 0
    ELSE IF b < 224 THEN 2
    ELSE IF b < 240 THEN 3
    ELSE IF b < 245 THEN 4
    ELSE 0

\* (v & 0b1100_0000) == 0b1000_0000
is_cont(v) == v \div 64 = 2

\* v & 0b0011_1111
mask_cont(v) == v % 64

\* v & mask, for the masks 0b0001_1111, 0b0000_1111, 0b0000_0111 (mask + 1 a power of two)
mask_head(mask, v) == v % (mask + 1)

\* mutant of u32_to_char: the value is cast with no check
u32_to_char_unchecked(c, nb_chars) == [tag |-> "Some", ch |-> c, adv |-> nb_chars]

\* char::from_u32: a Unicode scalar value is at most 0x10FFFF and no surrogate
u32_to_char(c, nb_chars) ==
    IF c > 1114111 \/ (c >= 55296 /\ c <= 57343)
    THEN [tag |-> "Err", err |-> "InvalidUtf8Sequence"]
    ELSE [tag |-> "Some", ch |-> c, adv |-> nb_chars]

next_char(data, index) ==
    IF index = Len(data) THEN [tag |-> "None"]
    ELSE IF index > Len(data) THEN [tag |-> "Err", err |-> "EmptyDataStream"]
    ELSE
      LET h == data[index + 1]
          nb_chars == utf8_char_width(h)
      IN  IF nb_chars = 0 THEN [tag |-> "Err", err |-> "InvalidUtf8Sequence"]
          ELSE IF index + nb_chars > Len(data)
          THEN [tag |-> "Err", err |-> "IncompleteUtf8Sequence", byte |-> h]
          ELSE CASE nb_chars = 1 -> [tag |-> "Some", ch |-> h, adv |-> nb_chars]
                 [] nb_chars = 2 ->
                      LET b2 == data[index + 2]
                      IN  IF ~is_cont(b2)
                          THEN [tag |-> "Err", err |-> "InvalidUtf8ContByte"]
                          ELSE u32_to_char(mask_head(31, h) * 64 + mask_cont(b2), nb_chars)
                 [] nb_chars = 3 ->
                      LET b2 == data[index + 2]
                          b3 == data[index + 3]
                      IN  IF ~is_cont(b2) \/ ~is_cont(b3)
                          THEN [tag |-> "Err", err |-> "InvalidUtf8ContByte"]
                          ELSE u32_to_char(mask_head(15, h) * 4096 + mask_cont(b2) * 64
                                             + mask_cont(b3), nb_chars)
                 [] nb_chars = 4 ->
                      LET b2 == data[index + 2]
                          b3 == data[index + 3]
                          b4 == data[index + 4]
                      IN  IF ~is_cont(b2) \/ ~is_cont(b3) \/ ~is_cont(b4)
                          THEN [tag |-> "Err", err |-> "InvalidUtf8ContByte"]
                          ELSE u32_to_char(mask_head(7, h) * 262144 + mask_cont(b2) * 4096
                                             + mask_cont(b3) * 64 + mask_cont(b4), nb_chars)
                 [] OTHER -> [tag |-> "Err", err |-> "InvalidUtf8Sequence"]

(***************************************************************************)
(* Character classes used by tokenizer.rs.  The standard library's and the  *)
(* unicode-xid crate's tables are given for the code points below U+0700    *)
(* and for the math-operator blocks, which cover every character the model  *)
(* feeds to the tokenizer.                                                  *)
(***************************************************************************)
is_ascii_digit(c) == c >= 48 /\ c <= 57

is_ascii_hexdigit(c) ==
    is_ascii_digit(c) \/ (c >= 65 /\ c <= 70) \/ (c >= 97 /\ c <= 102)

is_ascii_alphabetic(c) == (c >= 65 /\ c <= 90) \/ (c >= 97 /\ c <= 122)

\* char::is_numeric: the ASCII digits and the Unicode categories Nd, Nl, No
is_numeric(c) ==
    \/ is_ascii_digit(c)
    \/ c \in {178, 179, 185, 188, 189, 190}
    \/ (c >= 1632 /\ c <= 1641)
    \/ (c >= 1776 /\ c <= 1785)

\* UnicodeXID::is_xid_start
is_xid_start(c) ==
    \/ is_ascii_alphabetic(c)
    \/ c \in {170, 181, 186}
    \/ (c >= 192 /\ c <= 214)
    \/ (c >= 216 /\ c <= 246)
    \/ (c >= 248 /\ c <= 705)

\* UnicodeXID::is_xid_continue
is_xid_continue(c) ==
    \/ is_xid_start(c)
    \/ is_ascii_digit(c)
    \/ c = ChUnderscore
    \/ c = 183
    \/ (c >= 768 /\ c <= 879)
    \/ (c >= 1632 /\ c <= 1641)
    \/ (c >= 1776 /\ c <= 1785)

extended_math_operator(c) ==
    (c >= 8704 /\ c <= 8959) \/ (c >= 10752 /\ c <= 11007)

\* mutant of is_ascii_operator: the brackets and braces are not left out
is_ascii_operator_with_groups(ch) ==
    ch \in {63, 33, 35, 64, 36, 43, 45, 42, 47, 61, 60, 62, 44, 46, 58, 124, 37,
            94, 38, 126, 39, 96, 91, 93, 123, 125}

\* "?!#@$+-*/=<>,.:|%^&~'`".contains(ch)
is_ascii_operator(ch) ==
    ch \in {63, 33, 35, 64, 36, 43, 45, 42, 47, 61, 60, 62, 44, 46, 58, 124, 37,
            94, 38, 126, 39, 96}

is_id_start(ch) ==
    IF unicode
    THEN is_xid_start(ch) \/ ch = ChUnderscore \/ is_ascii_operator(ch)
           \/ extended_math_operator(ch)
    ELSE is_ascii_alphabetic(ch) \/ ch = ChUnderscore \/ is_ascii_operator(ch)

\* mutant of is_id_continue: the rule of the first character, without the digits
is_id_continue_as_start(ch) == is_id_start(ch)

is_id_continue(ch) ==
    IF unicode
    THEN is_xid_continue(ch) \/ ch = ChUnderscore \/ is_ascii_digit(ch)
           \/ is_ascii_operator(ch) \/ extended_math_operator(ch)
    ELSE is_ascii_alphabetic(ch) \/ ch = ChUnderscore \/ is_ascii_digit(ch)
           \/ is_ascii_operator(ch)

(***************************************************************************)
(* tokenizer.rs.  A tokenizer value tz is the struct                        *)
(* [data, index, position, cfg]; a method taking &mut self returns the new  *)
(* struct in the field tz of its result, also when it fails.                *)
(***************************************************************************)
TokenizerConfigDefault ==
    [filter_comment |-> FALSE, support_bytes |-> TRUE,
     support_bracket |-> TRUE, support_brace |-> TRUE]

Tokenizer_new_with_config(data, cfg) ==
    [data |-> data, index |-> 0, position |-> PositionDefault, cfg |-> cfg]

Tokenizer_new(data) == Tokenizer_new_with_config(data, TokenizerConfigDefault)

move_index(tz, bytes) == [tz EXCEPT !.index = @ + bytes]

\* mutant of consume: the index moves by one byte whatever the character's width
consume_one_byte(tz, ch, adv) == move_index([tz EXCEPT !.position = advance(@, ch)], 1)

\* self.position.advance(ch); self.move_index(advance);
consume(tz, ch, adv) == move_index([tz EXCEPT !.position = advance(@, ch)], adv)

slice_from(tz, start) == SubSeq(tz.data, start + 1, tz.index)

peek_char(tz) ==
    LET r == next_char(tz.data, tz.index)
    IN  IF r.tag = "Err"
        THEN [tag |-> "Err", err |-> [e |-> "DataError", cause |-> r, at |-> tz.index]]
        ELSE r

\* The closures passed to skip_while and skip_until, by name:
\*   "hexdigit"     |c| c.is_ascii_hexdigit()                    (bytes)
\*   "bin_digit"    |c| c == '0' || c == '1' || c == '_'         (number)
\*   "hex_digit"    |c| c.is_ascii_hexdigit() || c == '_'        (number)
\*   "dec_digit"    |c| c.is_numeric() || c == '_'               (number)
\*   "ascii_digit"  |c| c.is_ascii_digit()                       (next_cont)
\*   "id_continue"  |c| is_id_continue(c)                        (next_cont)
\*   "newline"      |c| c == '\n'                                (next_cont)
closure(f, c) ==
    CASE f = "hexdigit" -> is_ascii_hexdigit(c)
      [] f = "bin_digit" -> c = ChZero \/ c = ChOne \/ c = ChUnderscore
      [] f = "hex_digit" -> is_ascii_hexdigit(c) \/ c = ChUnderscore
      [] f = "dec_digit" -> is_numeric(c) \/ c = ChUnderscore
      [] f = "ascii_digit" -> is_ascii_digit(c)
      [] f = "id_continue" -> is_id_continue(c)
      [] f = "newline" -> c = ChNewline

\* advance the data stream while f returns true
RECURSIVE skip_while(_, _)
skip_while(f, tz) ==
    LET p == peek_char(tz)
    IN  CASE p.tag = "Err" -> [tag |-> "Err", tz |-> tz, err |-> p.err]
          [] p.tag = "None" -> [tag |-> "Ok", tz |-> tz]
          [] OTHER -> IF ~closure(f, p.ch) THEN [tag |-> "Ok", tz |-> tz]
                      ELSE skip_while(f, consume(tz, p.ch, p.adv))

\* advance the data stream until f returns true
RECURSIVE skip_until(_, _)
skip_until(f, tz) ==
    LET p == peek_char(tz)
    IN  CASE p.tag = "Err" -> [tag |-> "Err", tz |-> tz, err |-> p.err]
          [] p.tag = "None" -> [tag |-> "Ok", tz |-> tz]
          [] OTHER -> IF closure(f, p.ch) THEN [tag |-> "Ok", tz |-> tz]
                      ELSE skip_until(f, consume(tz, p.ch, p.adv))

RECURSIVE skip_whitespace(_)
skip_whitespace(tz) ==
    LET p == peek_char(tz)
    IN  CASE p.tag = "Err" -> [tag |-> "Err", tz |-> tz, err |-> p.err]
          [] p.tag = "None" -> [tag |-> "Ok", tz |-> tz]
          [] OTHER -> IF p.ch \notin {ChNewline, ChTab, ChSpace}
                      THEN [tag |-> "Ok", tz |-> tz]
                      ELSE skip_whitespace(consume(tz, p.ch, p.adv))

\* mutant of bytes: a character that is not '#' after the run gives the error of
\* end of stream, UnterminatedBytes
bytes_one_error(tz0) ==
    LET position_start == tz0.index
        s == skip_while("hexdigit", tz0)
    IN  IF s.tag = "Err" THEN s
        ELSE
          LET tz == s.tz
              p == peek_char(tz)
          IN  IF p.tag = "Some" /\ p.ch = ChHash
              THEN [tag |-> "Ok", tz |-> consume(tz, p.ch, p.adv),
                    val |-> [dat |-> slice_from(tz, position_start)]]
              ELSE [tag |-> "Err", tz |-> tz,
                    err |-> [e |-> "UnterminatedBytes", pos |-> tz.position]]

\* mutant of bytes: the errors carry the position the run of digits starts at
bytes_error_at_start(tz0) ==
    LET position_start == tz0.index
        s == skip_while("hexdigit", tz0)
    IN  IF s.tag = "Err" THEN s
        ELSE
          LET tz == s.tz
              p == peek_char(tz)
          IN  CASE p.tag = "Err" -> [tag |-> "Err", tz |-> tz, err |-> p.err]
                [] p.tag = "None" ->
                     [tag |-> "Err", tz |-> tz,
                      err |-> [e |-> "UnterminatedBytes", pos |-> tz0.position]]
                [] OTHER ->
                     IF p.ch = ChHash
                     THEN [tag |-> "Ok", tz |-> consume(tz, p.ch, p.adv),
                           val |-> [dat |-> slice_from(tz, position_start)]]
                     ELSE [tag |-> "Err", tz |-> tz,
                           err |-> [e |-> "UnterminatedBytesChar",
                                    pos |-> tz0.position, ch |-> p.ch]]

\* called with the leading '#' consumed
bytes(tz0) ==
    LET position_start == tz0.index
        s == skip_while("hexdigit", tz0)
    IN  IF s.tag = "Err" THEN s
        ELSE
          LET tz == s.tz
              p == peek_char(tz)
          IN  CASE p.tag = "Err" -> [tag |-> "Err", tz |-> tz, err |-> p.err]
                [] p.tag = "None" ->
                     [tag |-> "Err", tz |-> tz,
                      err |-> [e |-> "UnterminatedBytes", pos |-> tz.position]]
                [] OTHER ->
                     IF p.ch = ChHash
                     THEN [tag |-> "Ok", tz |-> consume(tz, p.ch, p.adv),
                           val |-> [dat |-> slice_from(tz, position_start)]]
                     ELSE [tag |-> "Err", tz |-> tz,
                           err |-> [e |-> "UnterminatedBytesChar",
                                    pos |-> tz.position, ch |-> p.ch]]

\* the value of a skip_while run that ends a number literal
num_run(s, base, start) ==
    IF s.tag = "Err" THEN s
    ELSE [tag |-> "Ok", tz |-> s.tz,
          val |-> [base |-> base, dat |-> slice_from(s.tz, start)]]

\* mutant of number: the raw digits of a binary or hexadecimal literal keep the prefix
number_prefix_kept(tz, leading_char, position_start) ==
    LET p == peek_char(tz)
        asis == [tag |-> "Ok", tz |-> tz,
                 val |-> [base |-> "Decimal", dat |-> slice_from(tz, position_start)]]
    IN  CASE p.tag = "Err" -> [tag |-> "Err", tz |-> tz, err |-> p.err]
          [] p.tag = "None" -> asis
          [] OTHER ->
               LET zero_start == leading_char = ChZero
                   tz1 == consume(tz, p.ch, p.adv)
               IN  IF zero_start /\ p.ch = ChLowerB
                   THEN num_run(skip_while("bin_digit", tz1), "Binary", position_start)
                   ELSE IF zero_start /\ p.ch = ChLowerX
                   THEN num_run(skip_while("hex_digit", tz1), "Hexadecimal",
                                position_start)
                   ELSE IF is_ascii_digit(p.ch)
                   THEN num_run(skip_while("dec_digit", tz1), "Decimal", position_start)
                   ELSE asis

\* called with the leading digit consumed; position_start is the literal's offset
number(tz, leading_char, position_start) ==
    LET p == peek_char(tz)
        asis == [tag |-> "Ok", tz |-> tz,
                 val |-> [base |-> "Decimal", dat |-> slice_from(tz, position_start)]]
    IN  CASE p.tag = "Err" -> [tag |-> "Err", tz |-> tz, err |-> p.err]
          [] p.tag = "None" -> asis
          [] OTHER ->
               LET zero_start == leading_char = ChZero
                   tz1 == consume(tz, p.ch, p.adv)
               IN  IF zero_start
                   THEN IF p.ch = ChLowerB
                        THEN num_run(skip_while("bin_digit", tz1),
                                     "Binary", tz1.index)
                        ELSE IF p.ch = ChLowerX
                        THEN num_run(skip_while("hex_digit", tz1),
                                     "Hexadecimal", tz1.index)
                        ELSE IF is_ascii_digit(p.ch)
                        THEN num_run(skip_while("dec_digit", tz1),
                                     "Decimal", position_start)
                        ELSE asis
                   ELSE IF is_ascii_digit(p.ch)
                        THEN num_run(skip_while("dec_digit", tz1),
                                     "Decimal", position_start)
                        ELSE asis

\* mutant of string: a backslash sets has_escape but escapes nothing
string_first_quote(tz0) ==
    LET position_start == tz0.index
        RECURSIVE go(_, _)
        go(tz, has_escape) ==
            LET p == peek_char(tz)
            IN  CASE p.tag = "Err" -> [tag |-> "Err", tz |-> tz, err |-> p.err]
                  [] p.tag = "None" ->
                       [tag |-> "Err", tz |-> tz,
                        err |-> [e |-> "UnterminatedString", pos |-> tz.position]]
                  [] OTHER ->
                       IF p.ch = ChQuote
                       THEN [tag |-> "Ok", tz |-> consume(tz, p.ch, p.adv),
                             val |-> [has_escape |-> has_escape,
                                      raw_data |-> slice_from(tz, position_start)]]
                       ELSE go(consume(tz, p.ch, p.adv),
                               has_escape \/ p.ch = ChBackslash)
    IN  go(tz0, FALSE)

\* mutant of string: the error of an unterminated literal carries the position
\* the literal's text starts at
string_error_at_start(tz0) ==
    LET position_start == tz0.index
        RECURSIVE go(_, _, _)
        go(tz, has_escape, escape) ==
            LET p == peek_char(tz)
            IN  CASE p.tag = "Err" -> [tag |-> "Err", tz |-> tz, err |-> p.err]
                  [] p.tag = "None" ->
                       [tag |-> "Err", tz |-> tz,
                        err |-> [e |-> "UnterminatedString", pos |-> tz0.position]]
                  [] OTHER ->
                       IF escape THEN go(consume(tz, p.ch, p.adv), has_escape, FALSE)
                       ELSE IF p.ch = ChBackslash
                       THEN go(consume(tz, p.ch, p.adv), TRUE, TRUE)
                       ELSE IF p.ch = ChQuote
                       THEN [tag |-> "Ok", tz |-> consume(tz, p.ch, p.adv),
                             val |-> [has_escape |-> has_escape,
                                      raw_data |-> slice_from(tz, position_start)]]
                       ELSE go(consume(tz, p.ch, p.adv), has_escape, escape)
    IN  go(tz0, FALSE, FALSE)

\* mutant of string: the end of stream ends the literal like a closing quote
string_closed_by_end(tz0) ==
    LET position_start == tz0.index
        RECURSIVE go(_, _, _)
        go(tz, has_escape, escape) ==
            LET p == peek_char(tz)
            IN  CASE p.tag = "Err" -> [tag |-> "Err", tz |-> tz, err |-> p.err]
                  [] p.tag = "None" ->
                       [tag |-> "Ok", tz |-> tz,
                        val |-> [has_escape |-> has_escape,
                                 raw_data |-> slice_from(tz, position_start)]]
                  [] OTHER ->
                       IF escape THEN go(consume(tz, p.ch, p.adv), has_escape, FALSE)
                       ELSE IF p.ch = ChBackslash
                       THEN go(consume(tz, p.ch, p.adv), TRUE, TRUE)
                       ELSE IF p.ch = ChQuote
                       THEN [tag |-> "Ok", tz |-> consume(tz, p.ch, p.adv),
                             val |-> [has_escape |-> has_escape,
                                      raw_data |-> slice_from(tz, position_start)]]
                       ELSE go(consume(tz, p.ch, p.adv), has_escape, escape)
    IN  go(tz0, FALSE, FALSE)

\* called with the opening quote consumed
string(tz0) ==
    LET position_start == tz0.index
        RECURSIVE go(_, _, _)
        go(tz, has_escape, escape) ==
            LET p == peek_char(tz)
            IN  CASE p.tag = "Err" -> [tag |-> "Err", tz |-> tz, err |-> p.err]
                  [] p.tag = "None" ->
                       [tag |-> "Err", tz |-> tz,
                        err |-> [e |-> "UnterminatedString", pos |-> tz.position]]
                  [] OTHER ->
                       IF escape THEN go(consume(tz, p.ch, p.adv), has_escape, FALSE)
                       ELSE IF p.ch = ChBackslash
                       THEN go(consume(tz, p.ch, p.adv), TRUE, TRUE)
                       ELSE IF p.ch = ChQuote
                       THEN [tag |-> "Ok", tz |-> consume(tz, p.ch, p.adv),
                             val |-> [has_escape |-> has_escape,
                                      raw_data |-> slice_from(tz, position_start)]]
                       ELSE go(consume(tz, p.ch, p.adv), has_escape, escape)
    IN  go(tz0, FALSE, FALSE)

\* the closure stok of next_cont: the token with its span
stok(token_start, cur, token) ==
    [span |-> [start |-> token_start, end |-> cur], inner |-> token]

\* Ok(Spanned { span, inner: token }) with the tokenizer tz reached
tok_ok(tz, token_start, token) ==
    [tag |-> "Ok", tz |-> tz, val |-> stok(token_start, tz.position, token)]

\* mutant of comment_tok: the comment runs through the newline that ends it
comment_tok_through_newline(s, token_start, position_start) ==
    IF s.tag = "Err" THEN s
    ELSE IF peek_char(s.tz).tag # "Some"
    THEN tok_ok(s.tz, token_start,
                [t |-> "Comment", text |-> slice_from(s.tz, position_start)])
    ELSE tok_ok(consume(s.tz, peek_char(s.tz).ch, peek_char(s.tz).adv), token_start,
                [t |-> "Comment",
                 text |-> slice_from(consume(s.tz, peek_char(s.tz).ch, peek_char(s.tz).adv),
                                     position_start)])

\* next_cont, comment branch, after s = self.skip_until(|c| c == '\n')
comment_tok(s, token_start, position_start) ==
    IF s.tag = "Err" THEN s
    ELSE tok_ok(s.tz, token_start,
                [t |-> "Comment", text |-> slice_from(s.tz, position_start)])

\* next_cont, string branch, after s = self.string()
string_tok(s, token_start) ==
    IF s.tag = "Err" THEN s
    ELSE tok_ok(s.tz, token_start,
                [t |-> "Atom",
                 atom |-> [a |-> "String", has_escape |-> s.val.has_escape,
                           raw_data |-> s.val.raw_data]])

\* next_cont, bytes branch, after s = self.bytes()
bytes_tok(s, token_start) ==
    IF s.tag = "Err" THEN s
    ELSE tok_ok(s.tz, token_start,
                [t |-> "Atom", atom |-> [a |-> "Bytes", dat |-> s.val.dat]])

\* next_cont, identifier branch, after s = self.skip_while(|c| is_id_continue(c))
ident_tok(s, token_start, position_start) ==
    IF s.tag = "Err" THEN s
    ELSE tok_ok(s.tz, token_start,
                [t |-> "Atom",
                 atom |-> [a |-> "Ident", text |-> slice_from(s.tz, position_start)]])

\* next_cont, number branch, after the '.' was consumed at fractional_start and
\* f = self.skip_while(|c| c.is_ascii_digit())
decimal_tok(anum, f, fractional_start, token_start) ==
    IF f.tag = "Err" THEN f
    ELSE tok_ok(f.tz, token_start,
                [t |-> "Atom",
                 atom |-> [a |-> "Decimal", raw_integral |-> anum.dat,
                           raw_fractional |-> slice_from(f.tz, fractional_start)]])

\* mutant of number_peeked: a '.' makes a Decimal of a literal of any base
number_peeked_any_base(tz, anum, p, token_start) ==
    IF p.tag = "Some" /\ p.ch = ChDot
    THEN decimal_tok(anum, skip_while("ascii_digit", consume(tz, p.ch, p.adv)),
                     tz.index + p.adv, token_start)
    ELSE tok_ok(tz, token_start,
                [t |-> "Atom",
                 atom |-> [a |-> "Integral", base |-> anum.base, dat |-> anum.dat]])

\* next_cont, number branch, after n = self.number(..) with p = self.peek_char()
number_peeked(tz, anum, p, token_start) ==
    IF anum.base = "Decimal" /\ p.tag = "Some" /\ p.ch = ChDot
    THEN decimal_tok(anum, skip_while("ascii_digit", consume(tz, p.ch, p.adv)),
                     tz.index + p.adv, token_start)
    ELSE tok_ok(tz, token_start,
                [t |-> "Atom",
                 atom |-> [a |-> "Integral", base |-> anum.base, dat |-> anum.dat]])

\* next_cont, number branch, after n = self.number(leading_char, position_start)
number_tok(n, token_start) ==
    IF n.tag = "Err" THEN n
    ELSE number_peeked(n.tz, n.val, peek_char(n.tz), token_start)

\* called with the leading character consumed
next_cont(tz, token_start, position_start, leading_char) ==
    IF leading_char = ChLParen
    THEN tok_ok(tz, token_start, [t |-> "Left", grp |-> "Paren"])
    ELSE IF leading_char = ChRParen
    THEN tok_ok(tz, token_start, [t |-> "Right", grp |-> "Paren"])
    ELSE IF tz.cfg.support_bracket /\ leading_char = ChLBracket
    THEN tok_ok(tz, token_start, [t |-> "Left", grp |-> "Bracket"])
    ELSE IF tz.cfg.support_bracket /\ leading_char = ChRBracket
    THEN tok_ok(tz, token_start, [t |-> "Right", grp |-> "Bracket"])
    ELSE IF tz.cfg.support_brace /\ leading_char = ChLBrace
    THEN tok_ok(tz, token_start, [t |-> "Left", grp |-> "Brace"])
    ELSE IF tz.cfg.support_brace /\ leading_char = ChRBrace
    THEN tok_ok(tz, token_start, [t |-> "Right", grp |-> "Brace"])
    ELSE IF leading_char = ChSemicolon
    THEN comment_tok(skip_until("newline", tz), token_start, position_start)
    ELSE IF leading_char = ChQuote
    THEN string_tok(string(tz), token_start)
    ELSE IF tz.cfg.support_bytes /\ leading_char = ChHash
    THEN bytes_tok(bytes(tz), token_start)
    ELSE IF is_ascii_digit(leading_char)
    THEN number_tok(number(tz, leading_char, position_start), token_start)
    ELSE IF is_id_start(leading_char)
    THEN ident_tok(skip_while("id_continue", tz), token_start, position_start)
    ELSE [tag |-> "Err", tz |-> tz,
          err |-> [e |-> "UnprocessedChar", ch |-> leading_char]]

is_comment(token) == token.t = "Comment"

\* Tokenizer::next.  The result is [tz, ret]: the tokenizer after the call and what
\* the call returned: [tag |-> "None"], [tag |-> "Some", tok], [tag |-> "Err", err],
\* or [tag |-> "Panic"] when an expect fails.
RECURSIVE Tokenizer_next(_)

\* mutant of next_lexed: a filtered comment ends the call with None
next_lexed_comment_ends(r) ==
    IF r.tag = "Err" THEN [tz |-> r.tz, ret |-> [tag |-> "Err", err |-> r.err]]
    ELSE IF ~is_comment(r.val.inner) THEN [tz |-> r.tz, ret |-> [tag |-> "Some", tok |-> r.val]]
    ELSE IF ~r.tz.cfg.filter_comment
    THEN [tz |-> r.tz, ret |-> [tag |-> "Some", tok |-> r.val]]
    ELSE [tz |-> r.tz, ret |-> [tag |-> "None"]]

\* Tokenizer::next after r = self.next_cont(..): the error is returned, a token is
\* returned unless it is a comment and comments are filtered, and then the loop goes on
next_lexed(r) ==
    IF r.tag = "Err" THEN [tz |-> r.tz, ret |-> [tag |-> "Err", err |-> r.err]]
    ELSE IF ~is_comment(r.val.inner) THEN [tz |-> r.tz, ret |-> [tag |-> "Some", tok |-> r.val]]
    ELSE IF ~r.tz.cfg.filter_comment
    THEN [tz |-> r.tz, ret |-> [tag |-> "Some", tok |-> r.val]]
    ELSE Tokenizer_next(r.tz)

\* mutant of next_peeked: token_start is read after the leading character is consumed
next_peeked_late_start(tz, p) ==
    CASE p.tag = "Err" -> [tz |-> tz, ret |-> [tag |-> "Panic"]]
      [] p.tag = "None" -> [tz |-> tz, ret |-> [tag |-> "None"]]
      [] OTHER -> next_lexed(next_cont(consume(tz, p.ch, p.adv),
                                       consume(tz, p.ch, p.adv).position,
                                       tz.index, p.ch))

\* mutant of next_peeked: the leading character is peeked and never consumed
next_peeked_unconsumed(tz, p) ==
    CASE p.tag = "Err" -> [tz |-> tz, ret |-> [tag |-> "Panic"]]
      [] p.tag = "None" -> [tz |-> tz, ret |-> [tag |-> "None"]]
      [] OTHER -> next_lexed(next_cont(tz, tz.position, tz.index, p.ch))

\* mutant of next_peeked: at end of stream the tokenizer goes back to the start of
\* the buffer
next_peeked_rewound(tz, p) ==
    CASE p.tag = "Err" -> [tz |-> tz, ret |-> [tag |-> "Panic"]]
      [] p.tag = "None" -> [tz |-> [tz EXCEPT !.index = 0, !.position = PositionDefault],
                            ret |-> [tag |-> "None"]]
      [] OTHER -> next_lexed(next_cont(consume(tz, p.ch, p.adv), tz.position,
                                       tz.index, p.ch))

\* Tokenizer::next after p = self.peek_char(): token_start and position_start are
\* the position and the index of tz
next_peeked(tz, p) ==
    CASE p.tag = "Err" -> [tz |-> tz, ret |-> [tag |-> "Panic"]]
      [] p.tag = "None" -> [tz |-> tz, ret |-> [tag |-> "None"]]
      [] OTHER -> next_lexed(next_cont(consume(tz, p.ch, p.adv), tz.position,
                                       tz.index, p.ch))

\* Tokenizer::next after w = self.skip_whitespace()
next_skipped(w) ==
    IF w.tag = "Err" THEN [tz |-> w.tz, ret |-> [tag |-> "Panic"]]
    ELSE next_peeked(w.tz, peek_char(w.tz))

Tokenizer_next(tz0) == next_skipped(skip_whitespace(tz0))

(***************************************************************************)
(* printer.rs.  A printer value is the struct [buf, prev]; buf is the       *)
(* sequence of the characters pushed.                                       *)
(***************************************************************************)
PrinterDefault == [buf |-> <<>>, prev |-> "Group"]

\* the separator pushed before an opening delimiter or a text
Printer_space(p) == IF p.prev = "Text" THEN <<ChSpace>> ELSE <<>>

Printer_open(p, grp) ==
    LET c == CASE grp = "Paren" -> ChLParen
               [] grp = "Bracket" -> ChLBracket
               [] grp = "Brace" -> ChLBrace
    IN  [buf |-> p.buf \o Printer_space(p) \o <<c>>, prev |-> "Group"]

Printer_close(p, grp) ==
    LET c == CASE grp = "Paren" -> ChRParen
               [] grp = "Bracket" -> ChRBracket
               [] grp = "Brace" -> ChRBrace
    IN  [buf |-> p.buf \o <<c>>, prev |-> "Group"]

Printer_text(p, str) == [buf |-> p.buf \o Printer_space(p) \o str, prev |-> "Text"]

(***************************************************************************)
(* data.rs.  ANum is [base, dat]; the conversions return [tag |-> "Ok", val] *)
(* or [tag |-> "Err", kind] with the kind of the ParseIntError.             *)
(***************************************************************************)
to_radix(base) ==
    CASE base = "Binary" -> 2
      [] base = "Decimal" -> 10
      [] base = "Hexadecimal" -> 16

\* mutant of digits: the separators are kept
digits_raw(anum) == anum.dat

\* ANum::digits: the characters of dat that are not '_'
digits(anum) ==
    LET RECURSIVE filter(_)
        filter(str) ==
            IF str = <<>> THEN <<>>
            ELSE IF Head(str) = ChUnderscore THEN filter(Tail(str))
            ELSE <<Head(str)>> \o filter(Tail(str))
    IN  filter(anum.dat)

\* char::to_digit: the value of c as a digit of the radix, or -1
to_digit(c, radix) ==
    LET v == CASE c \in 48..57 -> c - 48
               [] c \in 97..122 -> c - 97 + 10
               [] c \in 65..90 -> c - 65 + 10
               [] OTHER -> radix
    IN  IF v < radix THEN v ELSE -1

\* u64::from_str_radix.  The literals of the inputs are a few characters long:
\* their values stay far below 2^64 and the PosOverflow result does not arise.
from_str_radix(src, radix) ==
    LET RECURSIVE parse(_, _)
        parse(str, acc) ==
            IF str = <<>> THEN [tag |-> "Ok", val |-> acc]
            ELSE IF to_digit(Head(str), radix) < 0
            THEN [tag |-> "Err", kind |-> "InvalidDigit"]
            ELSE parse(Tail(str), acc * radix + to_digit(Head(str), radix))
    IN  IF src = <<>> THEN [tag |-> "Err", kind |-> "Empty"]
        ELSE IF Head(src) \in {43, 45} /\ Len(src) = 1
        THEN [tag |-> "Err", kind |-> "InvalidDigit"]
        ELSE IF Head(src) = 43 THEN parse(Tail(src), 0)
        ELSE parse(src, 0)

\* mutant of to_u64: the digits are read in radix 16 whatever the base
to_u64_radix16(anum) == from_str_radix(digits(anum), to_radix("Hexadecimal"))

to_u64(anum) == from_str_radix(digits(anum), to_radix(anum.base))

(***************************************************************************)
(* parser.rs.  The stack out is a sequence of frames [grp, span, elements], *)
(* innermost last.  An element is [span, inner] with inner one of           *)
(* [el |-> "Group", grp, elements], [el |-> "Atom", atom],                  *)
(* [el |-> "Comment", text].                                                *)
(***************************************************************************)
\* mutant of push_element: the element is put first in the frame
push_element_front(out, el) ==
    [out EXCEPT ![Len(out)].elements = <<el>> \o @]

\* out.last_mut() is Some: elements.push(el)
push_element(out, el) ==
    [out EXCEPT ![Len(out)].elements = Append(@, el)]

\* Token::Left(grp): out.push((grp, tok.span, Vec::new()))
push_frame(out, grp, span) ==
    Append(out, [grp |-> grp, span |-> span, elements |-> <<>>])

\* mutant of pop_frame: the frame is read with last() and left on the stack
pop_frame_kept(out) == out

\* out.pop(): the stack without its last frame
pop_frame(out) == SubSeq(out, 1, Len(out) - 1)

\* mutant of UnfinishedGroup: names the outermost open group
UnfinishedGroup_outermost(out) == [e |-> "UnfinishedGroup", grp |-> out[1].grp]

\* out.last() is Some((grp, _, _)) at end of stream
UnfinishedGroup(out) == [e |-> "UnfinishedGroup", grp |-> out[Len(out)].grp]

\* mutant of UnbalancedEmpty: carries the position after the closing delimiter
UnbalancedEmpty_end(tok_span, grp) ==
    [e |-> "UnbalancedEmpty", pos |-> tok_span.end, grp |-> grp]

\* out.pop() is None
UnbalancedEmpty(tok_span, grp) ==
    [e |-> "UnbalancedEmpty", pos |-> tok_span.start, grp |-> grp]

\* mutant of UnbalancedMismatch: expected and got exchanged
UnbalancedMismatch_swapped(inner_start, inner_grp, tok_span, grp) ==
    [e |-> "UnbalancedMismatch", span |-> extend(inner_start, tok_span),
     expected |-> grp, got |-> inner_grp]

UnbalancedMismatch(inner_start, inner_grp, tok_span, grp) ==
    [e |-> "UnbalancedMismatch", span |-> extend(inner_start, tok_span),
     expected |-> inner_grp, got |-> grp]

\* mutant of group_element: the span of the opening delimiter, not extended
group_element_unextended(inner_start, tok_span, grp, inner_elements) ==
    [span |-> inner_start,
     inner |-> [el |-> "Group", grp |-> grp, elements |-> inner_elements]]

group_element(inner_start, tok_span, grp, inner_elements) ==
    [span |-> extend(inner_start, tok_span),
     inner |-> [el |-> "Group", grp |-> grp, elements |-> inner_elements]]

\* the element made of a Comment or Atom token
leaf_element(tok) ==
    [span |-> tok.span,
     inner |-> IF tok.inner.t = "Comment"
               THEN [el |-> "Comment", text |-> tok.inner.text]
               ELSE [el |-> "Atom", atom |-> tok.inner.atom]]

\* the loop of Parser::next, with the parser's tokenizer tz and the stack out
RECURSIVE parser_loop(_, _)

\* mutant of parser_leaf: with the stack empty the element is dropped and the loop goes on
parser_leaf_dropped(tz, out, el) ==
    IF out = <<>> THEN parser_loop(tz, out)
    ELSE parser_loop(tz, push_element(out, el))

\* Comment or Atom: returned when the stack is empty, pushed to the last frame otherwise
parser_leaf(tz, out, el) ==
    IF out = <<>> THEN [tz |-> tz, ret |-> [tag |-> "Some", el |-> el]]
    ELSE parser_loop(tz, push_element(out, el))

\* Token::Right(grp) with a frame popped: top is the frame, rest the stack left
parser_close(tz, top, rest, tok) ==
    IF top.grp # tok.inner.grp
    THEN [tz |-> tz,
          ret |-> [tag |-> "Err",
                   err |-> UnbalancedMismatch(top.span, top.grp, tok.span,
                                              tok.inner.grp)]]
    ELSE parser_leaf(tz, rest,
                     group_element(top.span, tok.span, tok.inner.grp, top.elements))

\* Token::Right(grp)
parser_right(tz, out, tok) ==
    IF out = <<>>
    THEN [tz |-> tz,
          ret |-> [tag |-> "Err", err |-> UnbalancedEmpty(tok.span, tok.inner.grp)]]
    ELSE parser_close(tz, out[Len(out)], pop_frame(out), tok)

\* one turn of the loop, after n = self.tokenizer.next()
parser_turn(n, out) ==
    CASE n.ret.tag = "Panic" -> n
      [] n.ret.tag = "Err" ->
           [tz |-> n.tz,
            ret |-> [tag |-> "Err",
                     err |-> [e |-> "TokenizerError", cause |-> n.ret.err]]]
      [] n.ret.tag = "None" ->
           IF out = <<>> THEN [tz |-> n.tz, ret |-> [tag |-> "None"]]
           ELSE [tz |-> n.tz, ret |-> [tag |-> "Err", err |-> UnfinishedGroup(out)]]
      [] n.ret.tok.inner.t \in {"Comment", "Atom"} ->
           parser_leaf(n.tz, out, leaf_element(n.ret.tok))
      [] n.ret.tok.inner.t = "Left" ->
           parser_loop(n.tz, push_frame(out, n.ret.tok.inner.grp, n.ret.tok.span))
      [] OTHER -> parser_right(n.tz, out, n.ret.tok)

parser_loop(tz, out) == parser_turn(Tokenizer_next(tz), out)

\* mutant of Parser_next: the stack is a field of the parser and a call that
\* failed leaves a frame on it
Parser_next_stack_kept(tz) ==
    parser_loop(tz, IF result.tag = "Err"
                    THEN push_frame(<<>>, "Paren",
                                    [start |-> PositionDefault, end |-> PositionDefault])
                    ELSE <<>>)

\* Parser::next: the stack is a local of the call
Parser_next(tz) == parser_loop(tz, <<>>)

(***************************************************************************)
(* The inputs.  Tokenizer::new takes a &str: the buffer is the UTF-8        *)
(* encoding of a sequence of Unicode scalar values.                         *)
(***************************************************************************)
\* str::as_bytes of a one-character string
encode_char(c) ==
    IF c < 128 THEN <<c>>
    ELSE IF c < 2048 THEN <<192 + (c \div 64), 128 + (c % 64)>>
    ELSE IF c < 65536
    THEN <<224 + (c \div 4096), 128 + ((c \div 64) % 64), 128 + (c % 64)>>
    ELSE <<240 + (c \div 262144), 128 + ((c \div 4096) % 64),
           128 + ((c \div 64) % 64), 128 + (c % 64)>>

\* str::as_bytes
RECURSIVE as_bytes(_)
as_bytes(str) ==
    IF str = <<>> THEN <<>> ELSE encode_char(Head(str)) \o as_bytes(Tail(str))

\* the strings of at most n characters over an alphabet
Strings(alphabet, n) == UNION {[1..k -> alphabet] : k \in 0..n}

\* characters of the inputs that the source does not name: `9`, `a` (a hex digit),
\* `g` (a letter that is no hex digit), U+00E9 (a two-byte letter), U+00B2 (a
\* two-byte numeric character that is no digit), U+2200 (a three-byte math operator),
\* `+` (an operator) and U+00B7 (a two-byte character that continues an identifier
\* of the Unicode build and starts none)
Sample ==
    [nine |-> 57, a |-> 97, g |-> 103, eacute |-> 233, supertwo |-> 178,
     forall |-> 8704, plus |-> 43, middot |-> 183]

\* Bounds on the inputs: the longest string of each family of inputs
MaxGroupLen == 5
MaxNestLen == 7
MaxKindLen == 4
MaxKindTokenLen == 3
MaxTextLen == 4
MaxNumLen == 4
MaxMixedLen == 2
MaxIdentLen == 3

\* the calls made on a printer, and the groups and texts they are made with:
\* `let`, `x`, `1`
MaxPrinterCalls == 5

PrinterKinds == {"Paren", "Brace"}

PrinterTexts == {<<108, 101, 116>>, <<ChLowerX>>, <<ChOne>>}

\* the calls a caller still makes after one returned no token or no element
ExtraCalls == 1

AllConfigs ==
    [filter_comment : BOOLEAN, support_bytes : BOOLEAN,
     support_bracket : BOOLEAN, support_brace : BOOLEAN]

\* TokenizerConfig::default() with the group toggles set through bracket() and braces()
GroupConfigs ==
    {[TokenizerConfigDefault EXCEPT !.support_bracket = b, !.support_brace = c] :
        b \in BOOLEAN, c \in BOOLEAN}

\* TokenizerConfig::default() with comment() and support_bytes() set
TextConfigs ==
    {[TokenizerConfigDefault EXCEPT !.filter_comment = f, !.support_bytes = b] :
        f \in BOOLEAN, b \in BOOLEAN}

(***************************************************************************)
(* The families of inputs: nested groups of atoms over several lines;       *)
(* deeper nests of one kind; delimiters of the three kinds under the group  *)
(* toggles, read by the parser and, shorter, by the tokenizer;              *)
(* strings, comments and byte literals under the comment and byte           *)
(* toggles, read by the tokenizer, and by the parser under the default      *)
(* configuration; number literals; short strings mixing characters of the   *)
(* others with whitespace and multi-byte characters, under each toggle; and *)
(* identifiers in both builds.                                              *)
(***************************************************************************)
GroupFamily ==
    [alphabet |-> {ChLParen, ChRParen, ChLBracket, Sample.a, ChNewline},
     len |-> MaxGroupLen, owners |-> {"Parser"},
     cfgs |-> {TokenizerConfigDefault}, builds |-> {TRUE}]

NestFamily ==
    [alphabet |-> {ChLParen, ChRParen, Sample.a},
     len |-> MaxNestLen, owners |-> {"Parser"},
     cfgs |-> {TokenizerConfigDefault}, builds |-> {TRUE}]

KindFamily ==
    [alphabet |-> {ChLParen, ChRParen, ChLBracket, ChRBracket, ChLBrace, ChRBrace},
     len |-> MaxKindLen, owners |-> {"Parser"},
     cfgs |-> GroupConfigs, builds |-> {TRUE}]

KindTokenFamily ==
    [alphabet |-> KindFamily.alphabet,
     len |-> MaxKindTokenLen, owners |-> {"Tokenizer"},
     cfgs |-> GroupConfigs, builds |-> {TRUE}]

TextFamily ==
    [alphabet |-> {ChQuote, ChBackslash, ChSemicolon, ChNewline, ChHash, Sample.a},
     len |-> MaxTextLen, owners |-> {"Tokenizer"},
     cfgs |-> TextConfigs, builds |-> {TRUE}]

TextParserFamily ==
    [alphabet |-> TextFamily.alphabet \cup {ChLParen},
     len |-> MaxTextLen, owners |-> {"Parser"},
     cfgs |-> {TokenizerConfigDefault}, builds |-> {TRUE}]

NumFamily ==
    [alphabet |-> {ChZero, ChOne, Sample.nine, ChLowerB, ChLowerX, ChUnderscore, ChDot,
                   Sample.supertwo},
     len |-> MaxNumLen, owners |-> {"Tokenizer"},
     cfgs |-> {TokenizerConfigDefault}, builds |-> {TRUE}]

MixedFamily ==
    [alphabet |-> {ChLParen, ChRParen, ChLBracket, ChLBrace, ChRBrace, ChSemicolon,
                   ChQuote, ChHash, ChZero, Sample.a, Sample.g, ChSpace, ChNewline,
                   ChTab, Sample.eacute, Sample.supertwo, Sample.forall},
     len |-> MaxMixedLen, owners |-> {"Tokenizer"},
     cfgs |-> TextConfigs \cup GroupConfigs, builds |-> BOOLEAN]

IdentFamily ==
    [alphabet |-> {Sample.a, Sample.nine, ChUnderscore, Sample.plus, Sample.middot,
                   ChBackslash},
     len |-> MaxIdentLen, owners |-> {"Tokenizer"},
     cfgs |-> {TokenizerConfigDefault}, builds |-> BOOLEAN]

\* the buffers given to next_char: bytes of every width of the table, continuation
\* bytes (0x80, 0xA0), and the leading bytes whose second byte the encoding
\* restricts (0xE0, 0xED, 0xF0, 0xF4)
MaxBytesLen == 4

DecoderBytes == {65, 128, 160, 192, 195, 224, 237, 240, 244}

\* the printer reads no input
PrinterFamily ==
    [alphabet |-> {}, len |-> 0, owners |-> {"Printer"},
     cfgs |-> {TokenizerConfigDefault}, builds |-> {TRUE}]

Families ==
    {GroupFamily, NestFamily, KindFamily, KindTokenFamily, TextFamily, TextParserFamily,
     NumFamily, MixedFamily, IdentFamily, PrinterFamily}

\* the state after construction on an input of one of the families
InitOf(families) ==
    /\ \E f \in families :
         /\ owner \in f.owners
         /\ unicode \in f.builds
         /\ \E str \in Strings(f.alphabet, f.len), cfg \in f.cfgs :
              tokenizer = Tokenizer_new_with_config(as_bytes(str), cfg)
    /\ result = [tag |-> "Start"]
    /\ before = [index |-> 0, position |-> PositionDefault]
    /\ history = <<>>
    /\ converted = [tag |-> "None"]
    /\ printer = PrinterDefault
    /\ calls = <<>>
    /\ decoder = [data |-> <<>>, index |-> 0, ret |-> [tag |-> "Start"]]

Init == InitOf(Families)

\* the results of the calls made so far, oldest first
Returns == IF result.tag = "Start" THEN <<>> ELSE Append(history, result)

\* how many of the last calls returned no token or no element
RECURSIVE TrailingNones(_)
TrailingNones(rets) ==
    IF rets = <<>> \/ rets[Len(rets)].tag # "None" THEN 0
    ELSE 1 + TrailingNones(SubSeq(rets, 1, Len(rets) - 1))

\* a call of next on the instance the caller owns
Call(n) ==
    /\ TrailingNones(Returns) <= ExtraCalls
    /\ result.tag # "Panic"
    /\ tokenizer' = n.tz
    /\ result' = n.ret
    /\ before' = [index |-> tokenizer.index, position |-> tokenizer.position]
    /\ history' = Returns
    /\ converted' = [tag |-> "None"]
    /\ UNCHANGED <<owner, unicode, printer, calls, decoder>>

TokenizerNext == owner = "Tokenizer" /\ Call(Tokenizer_next(tokenizer))

ParserNext == owner = "Parser" /\ Call(Parser_next(tokenizer))

\* the caller reads digits() and to_u64() of the Integral the tokenizer returned
ToU64 ==
    /\ owner = "Tokenizer"
    /\ result.tag = "Some"
    /\ result.tok.inner.t = "Atom"
    /\ result.tok.inner.atom.a = "Integral"
    /\ converted.tag = "None"
    /\ converted' = [tag |-> "Some",
                     digits |-> digits(result.tok.inner.atom),
                     to_u64 |-> to_u64(result.tok.inner.atom)]
    /\ UNCHANGED <<tokenizer, owner, unicode, result, before, history, printer, calls,
                   decoder>>

\* a call on the printer, recorded with the length of buf before it
PrinterCall(p, call) ==
    /\ owner = "Printer"
    /\ Len(calls) < MaxPrinterCalls
    /\ printer' = p
    /\ calls' = Append(calls, call)
    /\ UNCHANGED <<tokenizer, owner, unicode, result, before, history, converted,
                   decoder>>

PrinterOpen ==
    \E grp \in PrinterKinds :
       PrinterCall(Printer_open(printer, grp),
                   [op |-> "open", grp |-> grp, at |-> Len(printer.buf)])

PrinterClose ==
    \E grp \in PrinterKinds :
       PrinterCall(Printer_close(printer, grp),
                   [op |-> "close", grp |-> grp, at |-> Len(printer.buf)])

PrinterText ==
    \E str \in PrinterTexts :
       PrinterCall(Printer_text(printer, str),
                   [op |-> "text", str |-> str, at |-> Len(printer.buf)])

Next == TokenizerNext \/ ParserNext \/ ToU64 \/ PrinterOpen \/ PrinterClose \/ PrinterText

Spec == Init /\ [][Next]_vars

\* the parser alone, and the tokenizer alone with the conversions of its numbers
ParserFamilies == {f \in Families : f.owners = {"Parser"}}

ParserInit == InitOf(ParserFamilies)

ParserSpec == ParserInit /\ [][ParserNext]_vars

TokenizerFamilies == {f \in Families : f.owners = {"Tokenizer"}}

TokenizerInit == InitOf(TokenizerFamilies)

TokenizerSpecNext == TokenizerNext \/ ToU64

TokenizerSpec == TokenizerInit /\ [][TokenizerSpecNext]_vars

(***************************************************************************)
(* next_char used directly: the buffer is any sequence of bytes, valid      *)
(* UTF-8 or not, and the offset any offset up to one past its length.       *)
(***************************************************************************)
DecoderInit ==
    /\ owner = "Decoder"
    /\ unicode = TRUE
    /\ tokenizer = Tokenizer_new(<<>>)
    /\ result = [tag |-> "Start"]
    /\ before = [index |-> 0, position |-> PositionDefault]
    /\ history = <<>>
    /\ converted = [tag |-> "None"]
    /\ printer = PrinterDefault
    /\ calls = <<>>
    /\ \E data \in Strings(DecoderBytes, MaxBytesLen) :
         \E index \in 0..(Len(data) + 1) :
            decoder = [data |-> data, index |-> index, ret |-> [tag |-> "Start"]]

NextChar ==
    /\ owner = "Decoder"
    /\ decoder.ret.tag = "Start"
    /\ decoder' = [decoder EXCEPT !.ret = next_char(decoder.data, decoder.index)]
    /\ UNCHANGED <<tokenizer, owner, unicode, result, before, history, converted,
                   printer, calls>>

DecoderNext == NextChar

DecoderSpec == DecoderInit /\ [][DecoderNext]_vars

(***************************************************************************)
(* Reference definitions for the properties: what a call of Parser::next    *)
(* reads, stated on the token sequence with a depth count and no stack.     *)
(***************************************************************************)
\* the tokenizer as it was when the last call began
TokenizerBefore ==
    [tokenizer EXCEPT !.index = before.index, !.position = before.position]

\* in the tokens T[1..i], the index of the innermost Left still open, or 0
RECURSIVE OpenerIdx(_, _, _)
OpenerIdx(T, i, closed) ==
    IF i = 0 THEN 0
    ELSE IF T[i].inner.t = "Right" THEN OpenerIdx(T, i - 1, closed + 1)
    ELSE IF T[i].inner.t = "Left"
    THEN IF closed = 0 THEN i ELSE OpenerIdx(T, i - 1, closed - 1)
    ELSE OpenerIdx(T, i - 1, closed)

Opener(T, i) == OpenerIdx(T, i, 0)

\* whether a call that has read the tokens T, the last one just now, ends on it
EndsCall(T) ==
    LET n == Len(T)
        o == Opener(T, n - 1)
    IN  IF T[n].inner.t = "Right"
        THEN o = 0 \/ T[o].inner.grp # T[n].inner.grp \/ Opener(T, n) = 0
        ELSE Opener(T, n) = 0

\* the reads of one call of Parser::next from tz: the tokens read, oldest first,
\* what the last read returned, and the tokenizer after it
RECURSIVE CallReads(_, _)
CallReads(tz, T) ==
    LET n == Tokenizer_next(tz)
    IN  IF n.ret.tag # "Some" THEN [toks |-> T, last |-> n.ret, tz |-> n.tz]
        ELSE LET T1 == Append(T, n.ret.tok)
             IN  IF EndsCall(T1) THEN [toks |-> T1, last |-> n.ret, tz |-> n.tz]
                 ELSE CallReads(n.tz, T1)

\* the reads of the last call of Parser::next
LastCall == CallReads(TokenizerBefore, <<>>)

ParserCalled == owner = "Parser" /\ result.tag # "Start"

IsErr(ret, e) == ret.tag = "Err" /\ ret.err.e = e

(***************************************************************************)
(* C1. As written: for every input made only of balanced, correctly-typed   *)
(* delimiters, no call of Parser::next returns UnbalancedEmpty,             *)
(* UnbalancedMismatch or UnfinishedGroup.                                   *)
(***************************************************************************)
Delimiters == {ChLParen, ChRParen, ChLBracket, ChRBracket, ChLBrace, ChRBrace}

Matching(a, b) ==
    <<a, b>> \in {<<ChLParen, ChRParen>>, <<ChLBracket, ChRBracket>>,
                  <<ChLBrace, ChRBrace>>}

\* a string of delimiters is balanced and correctly typed when deleting adjacent
\* matching pairs, again and again, leaves nothing
RECURSIVE Balanced(_)
Balanced(s) ==
    \/ s = <<>>
    \/ \E i \in 1..(Len(s) - 1) :
         /\ Matching(s[i], s[i + 1])
         /\ \A j \in 1..(i - 1) : ~Matching(s[j], s[j + 1])
         /\ Balanced(SubSeq(s, 1, i - 1) \o SubSeq(s, i + 2, Len(s)))

OnlyDelimiters(s) == \A i \in 1..Len(s) : s[i] \in Delimiters

\* the delimiters the configuration lexes as group tokens
SupportedDelimiters(cfg) ==
    {ChLParen, ChRParen}
      \cup (IF cfg.support_bracket THEN {ChLBracket, ChRBracket} ELSE {})
      \cup (IF cfg.support_brace THEN {ChLBrace, ChRBrace} ELSE {})

BalanceError(ret) ==
    ret.tag = "Err"
      /\ ret.err.e \in {"UnbalancedEmpty", "UnbalancedMismatch", "UnfinishedGroup"}

MismatchAt(T, i) ==
    /\ T[i].inner.t = "Right"
    /\ Opener(T, i - 1) > 0
    /\ T[Opener(T, i - 1)].inner.grp # T[i].inner.grp

C2_MismatchError ==
    ParserCalled =>
      LET call == LastCall
          T == call.toks
          n == Len(T)
      IN  /\ \A i \in 1..n :
               MismatchAt(T, i) =>
                 /\ i = n
                 /\ result = [tag |-> "Err",
                              err |-> [e |-> "UnbalancedMismatch",
                                       span |-> [start |-> T[Opener(T, i - 1)].span.start,
                                                 end |-> T[i].span.end],
                                       expected |-> T[Opener(T, i - 1)].inner.grp,
                                       got |-> T[i].inner.grp]]
          /\ IsErr(result, "UnbalancedMismatch") =>
               call.last.tag = "Some" /\ n > 0 /\ MismatchAt(T, n)

\* a mismatched close two levels deep, on a later line than its opener: the frame
\* it is compared with is the inner one
C2_Witness ==
    /\ ParserCalled
    /\ IsErr(result, "UnbalancedMismatch")
    /\ Len(LastCall.toks) = 3
    /\ Opener(LastCall.toks, Len(LastCall.toks) - 1) = 2
    /\ result.err.expected = "Bracket"
    /\ result.err.got = "Paren"
    /\ result.err.span.end.line > result.err.span.start.line

(***************************************************************************)
(* C3. When Parser::next reads a closing delimiter while its group stack is *)
(* empty, the call fails with UnbalancedEmpty carrying the delimiter's      *)
(* GroupKind and the start position of the closing token; UnbalancedEmpty   *)
(* is returned only then.                                                   *)
(***************************************************************************)
C3_UnbalancedEmpty ==
    ParserCalled =>
      LET call == LastCall
          T == call.toks
          n == Len(T)
          EmptyAt(i) == T[i].inner.t = "Right" /\ Opener(T, i - 1) = 0
      IN  /\ \A i \in 1..n :
               EmptyAt(i) =>
                 /\ i = n
                 /\ result = [tag |-> "Err",
                              err |-> [e |-> "UnbalancedEmpty",
                                       pos |-> T[i].span.start,
                                       grp |-> T[i].inner.grp]]
          /\ IsErr(result, "UnbalancedEmpty") =>
               call.last.tag = "Some" /\ n > 0 /\ EmptyAt(n)

\* the second `)` of `(a))`, read by the call after the one that returned `(a)`
C3_Witness ==
    /\ ParserCalled
    /\ tokenizer.data = <<ChLParen, Sample.a, ChRParen, ChRParen>>
    /\ Len(history) = 1
    /\ history[1].tag = "Some"
    /\ history[1].el.inner.el = "Group"
    /\ result = [tag |-> "Err",
                 err |-> [e |-> "UnbalancedEmpty", pos |-> [line |-> 1, col |-> 3],
                          grp |-> "Paren"]]

(***************************************************************************)
(* C4. When the tokenizer reaches end of stream while the parser's group    *)
(* stack is non-empty, Parser::next fails with UnfinishedGroup naming the   *)
(* kind of the innermost group still open, at any depth and for any mix of  *)
(* kinds; UnfinishedGroup is returned only then.                            *)
(***************************************************************************)
C4_UnfinishedGroup ==
    ParserCalled =>
      LET call == LastCall
          T == call.toks
          o == Opener(T, Len(T))
          AtEnd == call.last.tag = "None" /\ o > 0
      IN  /\ AtEnd => result = [tag |-> "Err",
                                err |-> [e |-> "UnfinishedGroup",
                                         grp |-> T[o].inner.grp]]
          /\ IsErr(result, "UnfinishedGroup") => AtEnd

\* end of stream with a bracket open inside a paren after a closed inner group:
\* the innermost open group is neither the first nor the last one opened
C4_Witness ==
    /\ ParserCalled
    /\ IsErr(result, "UnfinishedGroup")
    /\ result.err.grp = "Bracket"
    /\ LET T == LastCall.toks
       IN  /\ Len(T) = 4
           /\ Opener(T, Len(T)) = 2
           /\ T[1].inner = [t |-> "Left", grp |-> "Paren"]
           /\ T[4].inner.t = "Right"

(***************************************************************************)
(* C5. The children of every Group element returned by Parser::next, at any *)
(* depth, are exactly the elements directly between its opening and its     *)
(* matching closing delimiter, a nested group counting as one child, in     *)
(* source order, and the group's kind is the kind of both delimiters: the   *)
(* element written back as tokens, each group as Left(kind), its children   *)
(* in order, Right(kind), is the sequence of tokens the call read.          *)
(***************************************************************************)
RECURSIVE Flatten(_)
RECURSIVE FlattenAll(_)

\* an element as the tokens it was made of; a delimiter has no span of its own
Flatten(el) ==
    CASE el.inner.el = "Group" ->
           <<[inner |-> [t |-> "Left", grp |-> el.inner.grp]]>>
             \o FlattenAll(el.inner.elements)
             \o <<[inner |-> [t |-> "Right", grp |-> el.inner.grp]]>>
      [] el.inner.el = "Atom" ->
           <<[span |-> el.span, inner |-> [t |-> "Atom", atom |-> el.inner.atom]]>>
      [] el.inner.el = "Comment" ->
           <<[span |-> el.span, inner |-> [t |-> "Comment", text |-> el.inner.text]]>>

FlattenAll(elements) ==
    IF elements = <<>> THEN <<>>
    ELSE Flatten(Head(elements)) \o FlattenAll(Tail(elements))

\* tokens, the delimiters without their spans
TokItems(T) ==
    [i \in 1..Len(T) |->
       IF T[i].inner.t \in {"Left", "Right"} THEN [inner |-> T[i].inner] ELSE T[i]]

C5_ChildrenInOrder ==
    (ParserCalled /\ result.tag = "Some")
      => Flatten(result.el) = TokItems(LastCall.toks)

\* a group of three children, the second one a group with a child of its own
C5_Witness ==
    /\ ParserCalled
    /\ result.tag = "Some"
    /\ result.el.inner.el = "Group"
    /\ Len(result.el.inner.elements) = 3
    /\ result.el.inner.elements[1].inner.el = "Atom"
    /\ result.el.inner.elements[2].inner.el = "Group"
    /\ Len(result.el.inner.elements[2].inner.elements) = 1
    /\ result.el.inner.elements[3].inner.el = "Atom"

(***************************************************************************)
(* C6. On a well-formed document successive calls of Parser::next return    *)
(* the top-level elements one per call in source order: a top-level atom    *)
(* or comment at once, a top-level group by the call that reads its         *)
(* matching close; after the last one every call returns no element.        *)
(***************************************************************************)
\* the tokens of the whole buffer, up to end of stream or the first error
RECURSIVE DocReads(_, _)
DocReads(tz, T) ==
    LET n == Tokenizer_next(tz)
    IN  IF n.ret.tag # "Some" THEN [toks |-> T, last |-> n.ret]
        ELSE DocReads(n.tz, Append(T, n.ret.tok))

Doc == DocReads(Tokenizer_new_with_config(tokenizer.data, tokenizer.cfg), <<>>)

\* every token lexes, every close matches the innermost open Left, nothing stays open
WellFormed(D) ==
    /\ D.last.tag = "None"
    /\ \A i \in 1..Len(D.toks) :
         D.toks[i].inner.t = "Right" =>
           /\ Opener(D.toks, i - 1) > 0
           /\ D.toks[Opener(D.toks, i - 1)].inner.grp = D.toks[i].inner.grp
    /\ Opener(D.toks, Len(D.toks)) = 0

\* the indices of the tokens after which no group is open
TopEnds(T) == {i \in 1..Len(T) : Opener(T, i) = 0}

\* the tokens of the k-th top-level element
TopSegment(T, k) ==
    LET ends == TopEnds(T)
        e == CHOOSE i \in ends : Cardinality({j \in ends : j <= i}) = k
        b == IF k = 1 THEN 0
             ELSE CHOOSE i \in ends : Cardinality({j \in ends : j <= i}) = k - 1
    IN  SubSeq(T, b + 1, e)

C6_OneTopLevelElementPerCall ==
    ParserCalled =>
      LET D == Doc
          T == D.toks
          m == Cardinality(TopEnds(T))
          R == Returns
          call == LastCall
      IN  WellFormed(D) =>
            /\ \A k \in 1..Len(R) :
                 IF k <= m
                 THEN R[k].tag = "Some" /\ Flatten(R[k].el) = TokItems(TopSegment(T, k))
                 ELSE R[k].tag = "None"
            /\ Len(R) <= m =>
                 /\ call.toks = TopSegment(T, Len(R))
                 /\ call.tz.index = tokenizer.index

\* an atom, a group, an atom, then no element
C6_Witness ==
    /\ ParserCalled
    /\ WellFormed(Doc)
    /\ Len(Returns) = 4
    /\ Returns[1].tag = "Some" /\ Returns[1].el.inner.el = "Atom"
    /\ Returns[2].tag = "Some" /\ Returns[2].el.inner.el = "Group"
    /\ Len(Returns[2].el.inner.elements) = 1
    /\ Returns[3].tag = "Some" /\ Returns[3].el.inner.el = "Atom"
    /\ Returns[4].tag = "None"

(***************************************************************************)
(* C7. As written: once a call of Tokenizer::next or Parser::next has       *)
(* returned an error, no later call on the same instance returns a token    *)
(* or an element.                                                           *)
(***************************************************************************)
C7_FirstErrorStopsStream ==
    \A i \in 1..Len(Returns) : \A j \in (i + 1)..Len(Returns) :
       Returns[i].tag = "Err" => Returns[j].tag # "Some"

\* the errors raised when the input ends: an unterminated string or byte literal
\* (as the tokenizer returns it or wrapped by the parser) and an unfinished group
EndOfStreamError(ret) ==
    /\ ret.tag = "Err"
    /\ \/ ret.err.e \in {"UnterminatedString", "UnterminatedBytes", "UnfinishedGroup"}
       \/ /\ ret.err.e = "TokenizerError"
          /\ ret.err.cause.e \in {"UnterminatedString", "UnterminatedBytes"}

\* C7, amended: once a call has returned an error raised at end of stream
\* (UnterminatedString, UnterminatedBytes, UnfinishedGroup), every later call on the
\* same instance returns no token or element.
C7_EndErrorStopsStream ==
    \A i \in 1..Len(Returns) : \A j \in (i + 1)..Len(Returns) :
       EndOfStreamError(Returns[i]) => Returns[j].tag = "None"

\* a token, then an unterminated string, then a call that returns no token
C7_Witness ==
    /\ owner = "Tokenizer"
    /\ Len(Returns) = 3
    /\ Returns[1].tag = "Some"
    /\ IsErr(Returns[2], "UnterminatedString")
    /\ Returns[3].tag = "None"

(***************************************************************************)
(* C8. Every span the tokenizer or the parser emits (of a token, of an atom *)
(* or comment element, of a group at any depth, of UnbalancedMismatch) has  *)
(* start <= end in the order by line, then column.                          *)
(***************************************************************************)
PosLeq(a, b) == a.line < b.line \/ (a.line = b.line /\ a.col <= b.col)

SpanOrdered(span) == PosLeq(span.start, span.end)

RECURSIVE ElementSpansOrdered(_)
ElementSpansOrdered(el) ==
    /\ SpanOrdered(el.span)
    /\ el.inner.el = "Group" =>
         \A i \in 1..Len(el.inner.elements) : ElementSpansOrdered(el.inner.elements[i])

RECURSIVE GroupSpansCover(_, _, _)
RECURSIVE ChildrenSpansCover(_, _, _)

\* el was made of the tokens of T from index k on
GroupSpansCover(el, T, k) ==
    el.inner.el = "Group" =>
      /\ el.span.start = T[k].span.start
      /\ el.span.end = T[k + Len(Flatten(el)) - 1].span.end
      /\ ChildrenSpansCover(el.inner.elements, T, k + 1)

ChildrenSpansCover(elements, T, k) ==
    elements = <<>>
      \/ /\ GroupSpansCover(Head(elements), T, k)
         /\ ChildrenSpansCover(Tail(elements), T, k + Len(Flatten(Head(elements))))

C9_GroupSpan ==
    (ParserCalled /\ result.tag = "Some")
      => /\ Len(Flatten(result.el)) = Len(LastCall.toks)
         /\ GroupSpansCover(result.el, LastCall.toks, 1)

\* a group over two lines whose child is a group that ends on the first line
C9_Witness ==
    /\ ParserCalled
    /\ result.tag = "Some"
    /\ result.el.inner.el = "Group"
    /\ Len(result.el.inner.elements) = 1
    /\ result.el.inner.elements[1].inner.el = "Group"
    /\ result.el.inner.elements[1].span.end.line = result.el.span.start.line
    /\ result.el.span.end.line > result.el.span.start.line

(***************************************************************************)
(* C10. The span of every token returned by Tokenizer::next starts at the   *)
(* position of its leading character and ends at the position just after    *)
(* its last consumed character; the span covers the delimiters that are not *)
(* part of the payload: the quotes of a string, the `#` of a byte literal,  *)
(* the `0b` or `0x` of a number.  Positions are those of the text: line 1 + *)
(* the newlines before, column the code points since the last newline.      *)
(***************************************************************************)
\* the text of a token, from its payload
Lexeme(token) ==
    CASE token.t = "Left" ->
           (CASE token.grp = "Paren" -> <<ChLParen>>
              [] token.grp = "Bracket" -> <<ChLBracket>>
              [] token.grp = "Brace" -> <<ChLBrace>>)
      [] token.t = "Right" ->
           (CASE token.grp = "Paren" -> <<ChRParen>>
              [] token.grp = "Bracket" -> <<ChRBracket>>
              [] token.grp = "Brace" -> <<ChRBrace>>)
      [] token.t = "Comment" -> token.text
      [] token.atom.a = "String" -> <<ChQuote>> \o token.atom.raw_data \o <<ChQuote>>
      [] token.atom.a = "Bytes" -> <<ChHash>> \o token.atom.dat \o <<ChHash>>
      [] token.atom.a = "Ident" -> token.atom.text
      [] token.atom.a = "Decimal" ->
           token.atom.raw_integral \o <<ChDot>> \o token.atom.raw_fractional
      [] token.atom.a = "Integral" ->
           (CASE token.atom.base = "Binary" -> <<ChZero, ChLowerB>> \o token.atom.dat
              [] token.atom.base = "Hexadecimal" -> <<ChZero, ChLowerX>> \o token.atom.dat
              [] token.atom.base = "Decimal" -> token.atom.dat)

\* the position of byte offset off in the text data
TextPosition(data, off) ==
    LET newlines == {i \in 1..off : data[i] = ChNewline}
        last == IF newlines = {} THEN 0
                ELSE CHOOSE i \in newlines : \A j \in newlines : j <= i
    IN  [line |-> 1 + Cardinality(newlines),
         col |-> Cardinality({i \in (last + 1)..off : data[i] \div 64 # 2})]

C10_TokenSpan ==
    (owner = "Tokenizer" /\ result.tag = "Some") =>
      LET lexeme == Lexeme(result.tok.inner)
          to == tokenizer.index
          from == to - Len(lexeme)
      IN  /\ from >= before.index
          /\ SubSeq(tokenizer.data, from + 1, to) = lexeme
          /\ result.tok.span.start = TextPosition(tokenizer.data, from)
          /\ result.tok.span.end = TextPosition(tokenizer.data, to)
          /\ result.tok.span.end = tokenizer.position

\* the identifier of two characters after the empty string `""`: its span is
\* 1:2-1:4
C10_Witness ==
    /\ owner = "Tokenizer"
    /\ result.tag = "Some"
    /\ result.tok.inner = [t |-> "Atom",
                           atom |-> [a |-> "Ident", text |-> <<Sample.a, Sample.a>>]]
    /\ Len(history) = 1
    /\ history[1].tag = "Some"
    /\ history[1].tok.inner.t = "Atom"
    /\ history[1].tok.inner.atom.a = "String"
    /\ result.tok.span = [start |-> [line |-> 1, col |-> 2],
                          end |-> [line |-> 1, col |-> 4]]

(***************************************************************************)
(* C11. Whatever prefix of the input the tokenizer has consumed, its        *)
(* position is (1 + the newlines of the prefix, the code points consumed    *)
(* since the last newline): a newline increments line and resets col, any   *)
(* other code point, of one byte or more, increments col by one.  For `ab`, *)
(* newline, `cd` the token `cd` starts at line 2, column 0.                 *)
(***************************************************************************)
C11_PositionTracksText ==
    /\ tokenizer.position = TextPosition(tokenizer.data, tokenizer.index)
    /\ before.position = TextPosition(tokenizer.data, before.index)

\* the second identifier of `aa`, newline, `aa` starts at line 2, column 0
C11_Witness ==
    /\ owner = "Parser"
    /\ tokenizer.data = <<Sample.a, Sample.a, ChNewline, Sample.a, Sample.a>>
    /\ Len(history) = 1
    /\ result.tag = "Some"
    /\ result.el.inner.el = "Atom"
    /\ result.el.span = [start |-> [line |-> 2, col |-> 0],
                         end |-> [line |-> 2, col |-> 2]]
    /\ tokenizer.position = [line |-> 2, col |-> 2]

(***************************************************************************)
(* C12. Comment filtering is invisible to the other tokens: on every input  *)
(* the results (tokens with payloads and spans, errors) of a tokenizer that *)
(* filters comments are those of a tokenizer that emits them, with the      *)
(* Comment tokens removed.                                                  *)
(***************************************************************************)
\* the returns of the calls of Tokenizer::next from tz on, up to the first None
RECURSIVE TokenizerRun(_)
TokenizerRun(tz) ==
    LET r == Tokenizer_next(tz)
    IN  IF r.ret.tag \in {"None", "Panic"} THEN <<r.ret>>
        ELSE <<r.ret>> \o TokenizerRun(r.tz)

IsCommentToken(ret) == ret.tag = "Some" /\ ret.tok.inner.t = "Comment"

RemoveComments(rets) == SelectSeq(rets, LAMBDA ret : ~IsCommentToken(ret))

\* a tokenizer on the same input as the one of the state, with comments emitted
EmittingTwin ==
    [data |-> tokenizer.data, index |-> 0, position |-> PositionDefault,
     cfg |-> [tokenizer.cfg EXCEPT !.filter_comment = FALSE]]

RunEnded == result.tag = "None" /\ TrailingNones(Returns) = 1

C12_FilteringInvisible ==
    (owner = "Tokenizer" /\ tokenizer.cfg.filter_comment /\ RunEnded)
      => Returns = RemoveComments(TokenizerRun(EmittingTwin))

\* `a;`, newline, `a` with comments filtered: two identifiers, the second at 2:0
C12_Witness ==
    /\ owner = "Tokenizer"
    /\ tokenizer.cfg.filter_comment
    /\ RunEnded
    /\ Len(Returns) = 3
    /\ Len(TokenizerRun(EmittingTwin)) = 4
    /\ IsCommentToken(TokenizerRun(EmittingTwin)[2])
    /\ Returns[2].tag = "Some"
    /\ Returns[2].tok.span.start = [line |-> 2, col |-> 0]

(***************************************************************************)
(* C13. A `;` at token start yields a Comment token whose text begins with  *)
(* that `;` and runs up to, not including, the next newline, or to the end  *)
(* of stream when no newline follows; the newline is left unconsumed, and   *)
(* `"`, `(`, `)` or `;` inside the comment have no lexical effect.  Stated  *)
(* for a tokenizer that emits comments.                                     *)
(***************************************************************************)
\* the offset of the first byte from offset off on that is not whitespace
RECURSIVE TokenOffset(_, _)
TokenOffset(data, off) ==
    IF off < Len(data) /\ data[off + 1] \in {ChNewline, ChTab, ChSpace}
    THEN TokenOffset(data, off + 1)
    ELSE off

\* the offset of the first newline from offset off on, or the length of the text
RECURSIVE LineEnd(_, _)
LineEnd(data, off) ==
    IF off < Len(data) /\ data[off + 1] # ChNewline
    THEN LineEnd(data, off + 1)
    ELSE off

\* the offset where the token of a call that starts at offset off begins: after
\* the whitespace and, when comments are filtered, after the comments
RECURSIVE LexemeOffset(_, _, _)
LexemeOffset(data, off, filter) ==
    LET o == TokenOffset(data, off)
    IN  IF filter /\ o < Len(data) /\ data[o + 1] = ChSemicolon
        THEN LexemeOffset(data, LineEnd(data, o), filter)
        ELSE o

\* where the token of the call of the state begins
CallOffset == LexemeOffset(tokenizer.data, before.index, tokenizer.cfg.filter_comment)

\* the call of the state found `;` at token start
CommentAhead ==
    /\ owner = "Tokenizer"
    /\ result.tag # "Start"
    /\ ~tokenizer.cfg.filter_comment
    /\ TokenOffset(tokenizer.data, before.index) < Len(tokenizer.data)
    /\ tokenizer.data[TokenOffset(tokenizer.data, before.index) + 1] = ChSemicolon

C13_CommentToLineEnd ==
    LET from == TokenOffset(tokenizer.data, before.index)
        to == LineEnd(tokenizer.data, from)
    IN  /\ CommentAhead =>
             /\ result.tag = "Some"
             /\ result.tok.inner = [t |-> "Comment",
                                    text |-> SubSeq(tokenizer.data, from + 1, to)]
             /\ Head(result.tok.inner.text) = ChSemicolon
             /\ tokenizer.index = to
        /\ (owner = "Tokenizer" /\ IsCommentToken(result)) => CommentAhead

\* the comment `;";` before a newline, which stays unconsumed
C13_Witness ==
    /\ CommentAhead
    /\ result.tag = "Some"
    /\ result.tok.inner.text = <<ChSemicolon, ChQuote, ChSemicolon>>
    /\ tokenizer.index = 3
    /\ Len(tokenizer.data) = 4
    /\ tokenizer.data[4] = ChNewline

(***************************************************************************)
(* C14. A string literal ends at the first `"` that is not escaped, where a *)
(* backslash escapes exactly the one character after it (`\"` does not end  *)
(* the string, the quote after `\\` does); raw_data is the text between the *)
(* opening and the terminating quote, unmodified; has_escape is true iff an *)
(* escaping backslash occurred in the literal.                              *)
(***************************************************************************)
\* the number of consecutive backslashes that end at index i, none before index low
RECURSIVE BackslashRun(_, _, _)
BackslashRun(data, low, i) ==
    IF i >= low /\ data[i] = ChBackslash THEN 1 + BackslashRun(data, low, i - 1) ELSE 0

\* the byte at index i of a literal whose text starts at index low is escaped:
\* an odd run of backslashes ends just before it
IsEscaped(data, low, i) == BackslashRun(data, low, i - 1) % 2 = 1

\* the indexes of the unescaped quotes of a literal whose text starts at index low
ClosingQuotes(data, low) ==
    {i \in low..Len(data) : data[i] = ChQuote /\ ~IsEscaped(data, low, i)}

\* the call of the state found `"` at token start; the text starts at StringLow
StringLow == CallOffset + 2

StringAhead ==
    /\ owner = "Tokenizer"
    /\ result.tag # "Start"
    /\ CallOffset < Len(tokenizer.data)
    /\ tokenizer.data[StringLow - 1] = ChQuote

IsStringToken(ret) ==
    ret.tag = "Some" /\ ret.tok.inner.t = "Atom" /\ ret.tok.inner.atom.a = "String"

C14_StringLiteral ==
    LET quotes == ClosingQuotes(tokenizer.data, StringLow)
        close == CHOOSE i \in quotes : \A j \in quotes : i <= j
    IN  /\ (StringAhead /\ quotes # {}) =>
             /\ IsStringToken(result)
             /\ result.tok.inner.atom.raw_data
                  = SubSeq(tokenizer.data, StringLow, close - 1)
             /\ result.tok.inner.atom.has_escape
                  <=> \E i \in StringLow..(close - 1) :
                        /\ tokenizer.data[i] = ChBackslash
                        /\ ~IsEscaped(tokenizer.data, StringLow, i)
             /\ tokenizer.index = close
        /\ (owner = "Tokenizer" /\ IsStringToken(result)) => (StringAhead /\ quotes # {})

\* the literal "\"" : the escaped quote does not end it, and has_escape is set
C14_Witness ==
    /\ StringAhead
    /\ tokenizer.data = <<ChQuote, ChBackslash, ChQuote, ChQuote>>
    /\ IsStringToken(result)
    /\ result.tok.inner.atom = [a |-> "String", has_escape |-> TRUE,
                                raw_data |-> <<ChBackslash, ChQuote>>]

(***************************************************************************)
(* C15. As written: when a string literal is not closed before end of       *)
(* stream, Tokenizer::next fails with the unterminated-string error         *)
(* carrying the position where the opening quote was.                       *)
(***************************************************************************)
\* the call of the state found `"` at token start and no unescaped quote follows
StringUnclosed == StringAhead /\ ClosingQuotes(tokenizer.data, StringLow) = {}

OpeningQuotePosition == TextPosition(tokenizer.data, CallOffset)

EndOfStreamPosition == TextPosition(tokenizer.data, Len(tokenizer.data))

C15_ErrorAtOpeningQuote ==
    StringUnclosed => /\ IsErr(result, "UnterminatedString")
                      /\ result.err.pos = OpeningQuotePosition

\* C15, amended: when a string literal is not closed before end of stream,
\* Tokenizer::next fails with the unterminated-string error carrying the position of
\* the end of the input, which lies after the position of the opening quote.
C15_ErrorAtEndOfInput ==
    StringUnclosed => /\ IsErr(result, "UnterminatedString")
                      /\ result.err.pos = EndOfStreamPosition
                      /\ result.err.pos # OpeningQuotePosition
                      /\ PosLeq(OpeningQuotePosition, result.err.pos)

\* an unclosed literal that opens at 1:1 and runs over a newline: the error is at 2:1
C15_Witness ==
    /\ StringUnclosed
    /\ IsErr(result, "UnterminatedString")
    /\ OpeningQuotePosition = [line |-> 1, col |-> 1]
    /\ result.err.pos = [line |-> 2, col |-> 1]

(***************************************************************************)
(* C16. When a string literal is not closed before end of stream, also when *)
(* the input ends right after an escaping backslash, Tokenizer::next fails  *)
(* with the unterminated-string error anchored at the position reached: the *)
(* tokenizer's position at end of stream.  The error arises only so.        *)
(***************************************************************************)
C16_ErrorAtPositionReached ==
    /\ StringUnclosed => /\ IsErr(result, "UnterminatedString")
                         /\ result.err.pos = tokenizer.position
                         /\ tokenizer.index = Len(tokenizer.data)
    /\ (owner = "Tokenizer" /\ IsErr(result, "UnterminatedString")) => StringUnclosed

\* the input ends right after the escaping backslash of an unclosed literal
C16_Witness ==
    /\ StringUnclosed
    /\ IsErr(result, "UnterminatedString")
    /\ tokenizer.data[Len(tokenizer.data)] = ChBackslash
    /\ ~IsEscaped(tokenizer.data, StringLow, Len(tokenizer.data))
    /\ Len(tokenizer.data) >= StringLow + 1
    /\ result.err.pos = tokenizer.position

(***************************************************************************)
(* C17. With byte-literal support enabled, a `#` at token start followed by *)
(* a maximal, possibly empty, run of ASCII hex digits and then `#` yields a *)
(* Bytes atom whose text is exactly that run; if end of stream follows the  *)
(* run the call fails with UnterminatedBytes, and if any other character    *)
(* follows it fails with UnterminatedBytesChar carrying that character and  *)
(* its position.  Bytes atoms and these errors arise only so.               *)
(***************************************************************************)
HexDigitBytes == (48..57) \cup (65..70) \cup (97..102)

\* the offset of the first byte from offset off on that is not an ASCII hex digit
RECURSIVE HexRunEnd(_, _)
HexRunEnd(data, off) ==
    IF off < Len(data) /\ data[off + 1] \in HexDigitBytes
    THEN HexRunEnd(data, off + 1)
    ELSE off

\* the call of the state found `#` at token start, with byte literals supported
BytesAhead ==
    /\ owner = "Tokenizer"
    /\ result.tag # "Start"
    /\ tokenizer.cfg.support_bytes
    /\ CallOffset < Len(tokenizer.data)
    /\ tokenizer.data[CallOffset + 1] = ChHash

IsBytesToken(ret) ==
    ret.tag = "Some" /\ ret.tok.inner.t = "Atom" /\ ret.tok.inner.atom.a = "Bytes"

C17_BytesLiteral ==
    LET data == tokenizer.data
        from == CallOffset + 1
        to == HexRunEnd(data, from)
    IN  /\ BytesAhead =>
             IF to = Len(data)
             THEN /\ result = [tag |-> "Err",
                               err |-> [e |-> "UnterminatedBytes",
                                        pos |-> TextPosition(data, to)]]
                  /\ tokenizer.index = to
             ELSE IF data[to + 1] = ChHash
             THEN /\ IsBytesToken(result)
                  /\ result.tok.inner.atom.dat = SubSeq(data, from + 1, to)
                  /\ tokenizer.index = to + 1
             ELSE /\ result = [tag |-> "Err",
                               err |-> [e |-> "UnterminatedBytesChar",
                                        pos |-> TextPosition(data, to),
                                        ch |-> next_char(data, to).ch]]
                  /\ tokenizer.index = to
        /\ (/\ owner = "Tokenizer"
            /\ \/ IsBytesToken(result)
               \/ IsErr(result, "UnterminatedBytes")
               \/ IsErr(result, "UnterminatedBytesChar")) => BytesAhead

\* `#a;`: the run `a` is followed by `;`, at line 1, column 2
C17_Witness ==
    /\ BytesAhead
    /\ HexRunEnd(tokenizer.data, CallOffset + 1) > CallOffset + 1
    /\ result = [tag |-> "Err",
                 err |-> [e |-> "UnterminatedBytesChar",
                          pos |-> [line |-> 1, col |-> 2], ch |-> ChSemicolon]]

(***************************************************************************)
(* C18. A literal starting with `0b` is an Integral of base Binary whose    *)
(* raw digits are the maximal run of `0`, `1`, `_` after the `b`; a literal *)
(* starting with `0x` is an Integral of base Hexadecimal whose raw digits   *)
(* are the maximal run of hex digits and `_` after the `x`.  The prefix is  *)
(* not part of the raw digits; digits() is the raw digits with every `_`    *)
(* removed, and to_u64 is their value in the base.                          *)
(***************************************************************************)
\* the offset of the first byte from offset off on that is not in the set bytes
RECURSIVE RunEnd(_, _, _)
RunEnd(data, off, run) ==
    IF off < Len(data) /\ data[off + 1] \in run
    THEN RunEnd(data, off + 1, run)
    ELSE off

\* the call of the state found `0` and the character c at token start
PrefixAhead(c) ==
    /\ owner = "Tokenizer"
    /\ result.tag # "Start"
    /\ CallOffset + 1 < Len(tokenizer.data)
    /\ tokenizer.data[CallOffset + 1] = ChZero
    /\ tokenizer.data[CallOffset + 2] = c

IsIntegralToken(ret, base) ==
    /\ ret.tag = "Some"
    /\ ret.tok.inner.t = "Atom"
    /\ ret.tok.inner.atom.a = "Integral"
    /\ ret.tok.inner.atom.base = base

\* the number written by the ASCII digits str in the radix
RECURSIVE ValueOf(_, _)
ValueOf(str, radix) ==
    IF str = <<>> THEN 0
    ELSE LET c == str[Len(str)]
             v == IF c <= 57 THEN c - 48 ELSE IF c >= 97 THEN c - 87 ELSE c - 55
         IN  ValueOf(SubSeq(str, 1, Len(str) - 1), radix) * radix + v

\* the result is the Integral of the base whose raw digits are the run of the
\* bytes of the set, from offset from on
IntegralOfRun(base, from, run) ==
    LET data == tokenizer.data
        to == RunEnd(data, from, run)
        raw == SubSeq(data, from + 1, to)
        stripped == SelectSeq(raw, LAMBDA c : c # ChUnderscore)
    IN  /\ IsIntegralToken(result, base)
        /\ result.tok.inner.atom.dat = raw
        /\ tokenizer.index = to
        /\ converted.tag = "Some" =>
             /\ converted.digits = stripped
             /\ stripped # <<>> =>
                  converted.to_u64
                    = [tag |-> "Ok", val |-> ValueOf(stripped, to_radix(base))]

C18_PrefixedLiterals ==
    /\ PrefixAhead(ChLowerB) =>
         IntegralOfRun("Binary", CallOffset + 2, {ChZero, ChOne, ChUnderscore})
    /\ PrefixAhead(ChLowerX) =>
         IntegralOfRun("Hexadecimal", CallOffset + 2, HexDigitBytes \cup {ChUnderscore})
    /\ (owner = "Tokenizer" /\ IsIntegralToken(result, "Binary")) => PrefixAhead(ChLowerB)
    /\ (owner = "Tokenizer" /\ IsIntegralToken(result, "Hexadecimal"))
         => PrefixAhead(ChLowerX)

\* `0x_b`: base Hexadecimal, raw digits `_b`, digits `b`, to_u64 = 0xb
C18_Witness ==
    /\ PrefixAhead(ChLowerX)
    /\ tokenizer.data = <<ChZero, ChLowerX, ChUnderscore, ChLowerB>>
    /\ IsIntegralToken(result, "Hexadecimal")
    /\ result.tok.inner.atom.dat = <<ChUnderscore, ChLowerB>>
    /\ converted = [tag |-> "Some", digits |-> <<ChLowerB>>,
                    to_u64 |-> [tag |-> "Ok", val |-> 11]]

(***************************************************************************)
(* C19. A literal starting with a non-zero ASCII digit is a decimal-base    *)
(* literal whose integral text is the maximal run of ASCII digits and `_`   *)
(* beginning at that digit: the whole of `1_000` or `12_3` is one number    *)
(* token.                                                                   *)
(***************************************************************************)
AsciiDigitBytes == 48..57

\* the call of the state found a character of the set first at token start
DigitAhead(first) ==
    /\ owner = "Tokenizer"
    /\ result.tag # "Start"
    /\ CallOffset < Len(tokenizer.data)
    /\ tokenizer.data[CallOffset + 1] \in first

\* the token is a number of base Decimal, Integral or Decimal by what follows it
IsDecimalBaseToken(ret) ==
    /\ ret.tag = "Some"
    /\ ret.tok.inner.t = "Atom"
    /\ \/ ret.tok.inner.atom.a = "Decimal"
       \/ ret.tok.inner.atom.a = "Integral" /\ ret.tok.inner.atom.base = "Decimal"

\* the integral text of a number token of base Decimal
IntegralText(ret) ==
    IF ret.tok.inner.atom.a = "Decimal" THEN ret.tok.inner.atom.raw_integral
    ELSE ret.tok.inner.atom.dat

\* the maximal run of ASCII digits and `_` from offset off on
DecimalRun(data, off) ==
    SubSeq(data, off + 1, RunEnd(data, off, AsciiDigitBytes \cup {ChUnderscore}))

C19_NonZeroDecimalRun ==
    DigitAhead(AsciiDigitBytes \ {ChZero}) =>
      /\ IsDecimalBaseToken(result)
      /\ IntegralText(result) = DecimalRun(tokenizer.data, CallOffset)

(***************************************************************************)
(* C20. A literal starting with `0` followed by an ASCII digit is a         *)
(* decimal-base literal whose text includes the leading `0` and the         *)
(* following run of ASCII digits and `_` (`012` is Decimal-base `012`);     *)
(* `0` followed by any character other than `b`, `x` or an ASCII digit, or  *)
(* by end of stream, is the single-character decimal literal `0`.           *)
(***************************************************************************)
C20_LeadingZero ==
    LET data == tokenizer.data
        off == CallOffset
    IN  DigitAhead({ChZero}) =>
          IF off + 1 < Len(data) /\ data[off + 2] \in AsciiDigitBytes
          THEN /\ IsDecimalBaseToken(result)
               /\ IntegralText(result) = <<ChZero>> \o DecimalRun(data, off + 1)
          ELSE IF off + 1 < Len(data) /\ data[off + 2] \in {ChLowerB, ChLowerX}
          THEN TRUE
          ELSE /\ IsDecimalBaseToken(result)
               /\ IntegralText(result) = <<ChZero>>

(***************************************************************************)
(* C21. A number token is tagged Decimal if and only if it is a             *)
(* decimal-base literal immediately followed by `.`; then the `.` and the   *)
(* following, possibly empty, run of ASCII digits are consumed,             *)
(* raw_integral is the integral text already scanned and raw_fractional is  *)
(* that run (`1.` gives integral `1`, fractional empty).  Binary and        *)
(* hexadecimal literals are always Integral, and a `.` after them is not    *)
(* consumed by the number token.                                            *)
(***************************************************************************)
IsNumberToken(ret) ==
    /\ ret.tag = "Some"
    /\ ret.tok.inner.t = "Atom"
    /\ ret.tok.inner.atom.a \in {"Integral", "Decimal"}

C21_DecimalTag ==
    LET data == tokenizer.data
        prefixed == PrefixAhead(ChLowerB) \/ PrefixAhead(ChLowerX)
        atom == result.tok.inner.atom
        \* the offset where the integral text of a decimal-base literal ends
        dot == CallOffset + Len(IntegralText(result))
        dotted == dot < Len(data) /\ data[dot + 1] = ChDot
    IN  (owner = "Tokenizer" /\ IsNumberToken(result)) =>
          /\ atom.a = "Decimal" <=> (~prefixed /\ dotted)
          /\ prefixed =>
               /\ atom.a = "Integral"
               /\ atom.base \in {"Binary", "Hexadecimal"}
               /\ tokenizer.index = CallOffset + 2 + Len(atom.dat)
          /\ ~prefixed =>
               /\ IsDecimalBaseToken(result)
               /\ IntegralText(result) = SubSeq(data, CallOffset + 1, dot)
          /\ atom.a = "Decimal" =>
               /\ atom.raw_fractional
                    = SubSeq(data, dot + 2, RunEnd(data, dot + 1, AsciiDigitBytes))
               /\ tokenizer.index = RunEnd(data, dot + 1, AsciiDigitBytes)
          /\ (~prefixed /\ atom.a = "Integral") => tokenizer.index = dot

\* `1.` is the Decimal of integral `1` and empty fractional
C21_Witness ==
    /\ owner = "Tokenizer"
    /\ tokenizer.data = <<ChOne, ChDot>>
    /\ IsNumberToken(result)
    /\ result.tok.inner.atom = [a |-> "Decimal", raw_integral |-> <<ChOne>>,
                                raw_fractional |-> <<>>]
    /\ tokenizer.index = 2

(***************************************************************************)
(* C22. For every input that is a single run of ASCII decimal digits, with  *)
(* no `b`/`x` prefix and no `.`, the tokenizer yields exactly one Integral  *)
(* token of base Decimal, and to_u64 of it equals the numeric value of the  *)
(* literal.                                                                 *)
(***************************************************************************)
\* the input is a run of ASCII digits and nothing else
DigitsOnly ==
    /\ owner = "Tokenizer"
    /\ tokenizer.data # <<>>
    /\ \A i \in 1..Len(tokenizer.data) : tokenizer.data[i] \in AsciiDigitBytes

C22_DecimalRoundTrip ==
    (DigitsOnly /\ result.tag # "Start") =>
      /\ Returns[1].tag = "Some"
      /\ Returns[1].tok.inner
           = [t |-> "Atom",
              atom |-> [a |-> "Integral", base |-> "Decimal", dat |-> tokenizer.data]]
      /\ \A k \in 2..Len(Returns) : Returns[k].tag = "None"
      /\ converted.tag = "Some" =>
           /\ converted.digits = tokenizer.data
           /\ converted.to_u64 = [tag |-> "Ok", val |-> ValueOf(tokenizer.data, 10)]

\* `019` is one Integral of base Decimal and to_u64 gives 19
C22_Witness ==
    /\ DigitsOnly
    /\ tokenizer.data = <<ChZero, ChOne, Sample.nine>>
    /\ Len(Returns) = 1
    /\ converted = [tag |-> "Some", digits |-> tokenizer.data,
                    to_u64 |-> [tag |-> "Ok", val |-> 19]]

(***************************************************************************)
(* C23. `[`/`]` at token start yield Left/Right(Bracket) if and only if     *)
(* bracket support is enabled, `{`/`}` yield Left/Right(Brace) if and only  *)
(* if brace support is enabled; with the support disabled the character     *)
(* fails with UnprocessedChar carrying it.  `(`/`)` yield Left/Right(Paren) *)
(* under every configuration, and each toggle leaves the lexing of all      *)
(* other characters unchanged.                                              *)
(***************************************************************************)
\* the call of the state found a character at token start
CharAhead ==
    owner = "Tokenizer" /\ result.tag # "Start" /\ CallOffset < Len(tokenizer.data)

\* the byte at token start
LeadingByte == tokenizer.data[CallOffset + 1]

\* the result of the call for a delimiter: the token when supported, else the error
DelimiterResult(side, grp, supported) ==
    IF supported
    THEN /\ result.tag = "Some"
         /\ result.tok.inner = [t |-> side, grp |-> grp]
         /\ tokenizer.index = CallOffset + 1
    ELSE result = [tag |-> "Err", err |-> [e |-> "UnprocessedChar", ch |-> LeadingByte]]

\* the same call by a tokenizer whose configuration is cfg
CallUnder(cfg) == Tokenizer_next([TokenizerBefore EXCEPT !.cfg = cfg])

\* the call n returns the same and stops at the same place as the call of the state
SameCall(n) ==
    n.ret = result /\ n.tz.index = tokenizer.index /\ n.tz.position = tokenizer.position

SameUnder(cfg) == SameCall(CallUnder(cfg))

LeadingChar == next_char(tokenizer.data, CallOffset).ch

\* the identifier-continue characters: as the claim glosses them, the start
\* characters plus the ASCII digits; as amended, with the Unicode build also the
\* other XID_Continue characters
ContinuesIdent(c, amended) ==
    \/ is_id_start(c)
    \/ c \in AsciiDigitBytes
    \/ amended /\ unicode /\ is_xid_continue(c)

\* the offset of the first character from offset off on that continues no identifier
RECURSIVE IdentRunEnd(_, _, _)
IdentRunEnd(data, off, amended) ==
    IF off < Len(data) /\ ContinuesIdent(next_char(data, off).ch, amended)
    THEN IdentRunEnd(data, off + next_char(data, off).adv, amended)
    ELSE off

\* the result is the identifier that runs from token start
IdentOfRun(amended) ==
    LET to == IdentRunEnd(tokenizer.data, CallOffset, amended)
    IN  /\ result.tag = "Some"
        /\ result.tok.inner
             = [t |-> "Atom",
                atom |-> [a |-> "Ident",
                          text |-> SubSeq(tokenizer.data, CallOffset + 1, to)]]
        /\ tokenizer.index = to

\* the character c is claimed by a lexical rule that comes before the identifiers
EarlierRule(c) ==
    \/ c \in {ChLParen, ChRParen, ChSemicolon, ChQuote}
    \/ tokenizer.cfg.support_bracket /\ c \in {ChLBracket, ChRBracket}
    \/ tokenizer.cfg.support_brace /\ c \in {ChLBrace, ChRBrace}
    \/ tokenizer.cfg.support_bytes /\ c = ChHash
    \/ c \in AsciiDigitBytes

\* a digit, a delimiter, `;`, `"` or `\` at token start is no identifier start
NeverStartsIdent ==
    (CharAhead /\ is_id_start(LeadingChar))
      => LeadingChar \notin
           AsciiDigitBytes \cup Delimiters \cup {ChSemicolon, ChQuote, ChBackslash}

C24_IdentRun ==
    /\ NeverStartsIdent
    /\ CharAhead =>
         /\ is_id_start(LeadingChar) => IdentOfRun(FALSE)
         /\ (~is_id_start(LeadingChar) /\ ~EarlierRule(LeadingChar))
              => result = [tag |-> "Err",
                           err |-> [e |-> "UnprocessedChar", ch |-> LeadingChar]]

\* C24, amended: a character at token start that satisfies the identifier-start rule
\* and is not claimed by an earlier lexical rule (`#` when byte literals are
\* supported) yields Atom(Ident(text)) where text is the maximal run of
\* identifier-continue characters (start characters plus ASCII digits and, with
\* Unicode support, the other XID_Continue characters) beginning at it; a leading
\* character matching no lexical rule fails with UnprocessedChar carrying it; an
\* identifier and this error arise only so.
C24_IdentRunOfBuild ==
    /\ NeverStartsIdent
    /\ CharAhead =>
         /\ (is_id_start(LeadingChar) /\ ~EarlierRule(LeadingChar)) => IdentOfRun(TRUE)
         /\ (~is_id_start(LeadingChar) /\ ~EarlierRule(LeadingChar))
              => result = [tag |-> "Err",
                           err |-> [e |-> "UnprocessedChar", ch |-> LeadingChar]]
    /\ (/\ owner = "Tokenizer"
        /\ result.tag = "Some"
        /\ result.tok.inner.t = "Atom"
        /\ result.tok.inner.atom.a = "Ident")
         => CharAhead /\ is_id_start(LeadingChar) /\ ~EarlierRule(LeadingChar)
    /\ (owner = "Tokenizer" /\ IsErr(result, "UnprocessedChar"))
         => CharAhead /\ ~is_id_start(LeadingChar) /\ ~EarlierRule(LeadingChar)

\* in the Unicode build `a`, U+00B7, `9` is one identifier
C24_Witness ==
    /\ CharAhead
    /\ unicode
    /\ tokenizer.data = as_bytes(<<Sample.a, Sample.middot, Sample.nine>>)
    /\ IdentOfRun(TRUE)
    /\ tokenizer.index = 4
(***************************************************************************)
(* C25.  The printer's separating spaces.  The output is cut into one       *)
(* segment per call, from the length of buf when the call was made to the   *)
(* length when the next one was made; a segment is the separator the call   *)
(* pushed followed by the token it was made with.                           *)
(***************************************************************************)
CallToken(call) ==
    CASE call.op = "text" -> call.str
      [] call.op = "open" ->
           <<CASE call.grp = "Paren" -> ChLParen
               [] call.grp = "Bracket" -> ChLBracket
               [] call.grp = "Brace" -> ChLBrace>>
      [] call.op = "close" ->
           <<CASE call.grp = "Paren" -> ChRParen
               [] call.grp = "Bracket" -> ChRBracket
               [] call.grp = "Brace" -> ChRBrace>>

SegmentEnd(i) == IF i = Len(calls) THEN Len(printer.buf) ELSE calls[i + 1].at

Segment(i) == SubSeq(printer.buf, calls[i].at + 1, SegmentEnd(i))

\* the separators the contract allows before the token of call i: none at the
\* start of the output, after an opening delimiter and before a closing one;
\* one space between a text and the text or closing delimiter before it; an
\* opening delimiter after a text or a closing delimiter is left to the printer
Separators(i) ==
    CASE i = 1 -> {<<>>}
      [] i > 1 /\ calls[i].op = "close" -> {<<>>}
      [] i > 1 /\ calls[i].op # "close" /\ calls[i - 1].op = "open" -> {<<>>}
      [] i > 1 /\ calls[i].op = "text" /\ calls[i - 1].op # "open" -> {<<ChSpace>>}
      [] i > 1 /\ calls[i].op = "open" /\ calls[i - 1].op # "open" -> {<<>>, <<ChSpace>>}

LetX1Calls ==
    <<[op |-> "open", grp |-> "Paren", at |-> 0],
      [op |-> "text", str |-> <<108, 101, 116>>, at |-> 1],
      [op |-> "text", str |-> <<ChLowerX>>, at |-> 4],
      [op |-> "text", str |-> <<ChOne>>, at |-> 6],
      [op |-> "close", grp |-> "Paren", at |-> 8]>>

\* C25: for any sequence of open/close/text calls on a Printer, the output has
\* exactly one separating space between any two consecutive non-opening tokens,
\* and no space immediately after an opening delimiter or before a closing
\* delimiter; the calls open Paren, text let, text x, text 1, close Paren print
\* exactly `(let x 1)`.
C25_SeparatingSpaces ==
    owner = "Printer" =>
      /\ \A i \in 1..Len(calls) :
           \E sep \in Separators(i) : Segment(i) = sep \o CallToken(calls[i])
      /\ calls = LetX1Calls
           => printer.buf = <<ChLParen, 108, 101, 116, ChSpace, ChLowerX, ChSpace,
                              ChOne, ChRParen>>

(***************************************************************************)
(* C26.  The group stack is rebuilt empty at the start of every call of     *)
(* Parser::next.  What a call returns is stated on the tokens that call     *)
(* read, nested by a depth count that starts at zero with the call.         *)
(***************************************************************************)
\* some earlier call on this parser failed
AfterFailure ==
    ParserCalled /\ \E k \in 1..Len(history) : history[k].tag = "Err"

\* what a call that read the tokens T, its last read returning last, returns when
\* nothing but T is on its stack
OwnTokensResult(ret, T, last) ==
    LET n == Len(T)
        o == Opener(T, n)
    IN  CASE last.tag = "Err" ->
               ret = [tag |-> "Err", err |-> [e |-> "TokenizerError", cause |-> last.err]]
          [] last.tag = "None" /\ o = 0 -> T = <<>> /\ ret = [tag |-> "None"]
          [] last.tag = "None" /\ o > 0 ->
               ret = [tag |-> "Err",
                      err |-> [e |-> "UnfinishedGroup", grp |-> T[o].inner.grp]]
          [] last.tag = "Some" /\ T[n].inner.t = "Right" /\ Opener(T, n - 1) = 0 ->
               ret = [tag |-> "Err",
                      err |-> [e |-> "UnbalancedEmpty", pos |-> T[n].span.start,
                               grp |-> T[n].inner.grp]]
          [] last.tag = "Some" /\ MismatchAt(T, n) ->
               /\ IsErr(ret, "UnbalancedMismatch")
               /\ ret.err.expected = T[Opener(T, n - 1)].inner.grp
               /\ ret.err.span.start = T[Opener(T, n - 1)].span.start
          [] OTHER -> ret.tag = "Some" /\ Flatten(ret.el) = TokItems(T)

\* C26: the parser's group stack is rebuilt empty at the start of every
\* Parser::next call and no partial tree survives a failure: the children and
\* open frames of a call that ended in an error are no part of, and have no
\* influence on the nesting of, the element or error a later call returns; the
\* later call starts from the tokenizer's current position with an empty stack.
C26_StackRebuiltEmpty ==
    AfterFailure =>
      LET call == LastCall
      IN  /\ OwnTokensResult(result, call.toks, call.last)
          /\ call.tz.index = tokenizer.index
          /\ call.tz.position = tokenizer.position

\* `([))`: the first call fails on the first `)` with the paren still open; the
\* second call reads the second `)` on an empty stack
C26_Witness ==
    /\ AfterFailure
    /\ tokenizer.data = <<ChLParen, ChLBracket, ChRParen, ChRParen>>
    /\ Len(history) = 1
    /\ IsErr(history[1], "UnbalancedMismatch")
    /\ history[1].err.expected = "Bracket"
    /\ result = [tag |-> "Err",
                 err |-> [e |-> "UnbalancedEmpty", pos |-> [line |-> 1, col |-> 3],
                          grp |-> "Paren"]]

(***************************************************************************)
(* C27.  Progress.  before.index is the byte offset when the last call      *)
(* began and tokenizer.index the offset it left; calls are the only steps   *)
(* that move the offset.                                                    *)
(***************************************************************************)
NextCalled == owner \in {"Tokenizer", "Parser"} /\ result.tag # "Start"

\* C27: the tokenizer never backtracks and always makes progress: across any
\* sequence of calls of Tokenizer::next the byte offset never decreases, every
\* call that returns a token or an error has advanced the offset by at least one
\* byte, and so on any finite input repeated calls reach the no-token result
\* after at most len+1 calls; repeated calls of Parser::next likewise reach the
\* no-element result.
C27_Progress ==
    NextCalled =>
      /\ before.index <= tokenizer.index
      /\ result.tag \in {"Some", "Err"} => before.index + 1 <= tokenizer.index
      /\ Len(Returns) >= Len(tokenizer.data) + 1
           => \E k \in 1..(Len(tokenizer.data) + 1) : Returns[k].tag = "None"

\* `(((`: three tokens of one byte each, the no-token result at the fourth call,
\* which is call len+1
C27_Witness ==
    /\ owner = "Tokenizer"
    /\ tokenizer.data = <<ChLParen, ChLParen, ChLParen>>
    /\ Len(Returns) = Len(tokenizer.data) + 1
    /\ \A k \in 1..3 : Returns[k].tag = "Some"
    /\ result.tag = "None"
    /\ before.index = tokenizer.index

(***************************************************************************)
(* C28.  Well-formed UTF-8 after RFC 3629, section 4 (the table of          *)
(* well-formed byte sequences), stated on the bytes with no decoding.       *)
(***************************************************************************)
ContBytes == 128..191

\* the bytes the RFC allows right after the leading byte b
SecondBytes(b) ==
    CASE b = 224 -> 160..191
      [] b = 237 -> 128..159
      [] b = 240 -> 144..191
      [] b = 244 -> 128..143
      [] OTHER -> ContBytes

\* the length of a well-formed sequence of leading byte b
EncodedLength(b) ==
    CASE b \in 0..127 -> 1
      [] b \in 194..223 -> 2
      [] b \in 224..239 -> 3
      [] b \in 240..244 -> 4
      [] OTHER -> 0

\* the bytes of data from offset off on begin with a well-formed sequence
WellFormedAt(data, off) ==
    /\ off < Len(data)
    /\ LET w == EncodedLength(data[off + 1])
       IN  /\ w > 0
           /\ off + w <= Len(data)
           /\ w >= 2 => data[off + 2] \in SecondBytes(data[off + 1])
           /\ \A k \in 3..w : data[off + k] \in ContBytes

\* the bytes of data from offset off on are well-formed sequences, one after another
RECURSIVE IsUtf8From(_, _)
IsUtf8From(data, off) ==
    \/ off = Len(data)
    \/ /\ WellFormedAt(data, off)
       /\ IsUtf8From(data, off + EncodedLength(data[off + 1]))

IsUtf8(buffer) == IsUtf8From(buffer, 0)

\* an offset of a well-formed buffer between two of its encoded characters: what
\* follows it is well-formed only if no character is cut by it
OnBoundary(data, off) == off <= Len(data) /\ IsUtf8From(data, off)

\* the texts a token borrows from the buffer
TokenTexts(token) ==
    CASE token.t \in {"Left", "Right"} -> {}
      [] token.t = "Comment" -> {token.text}
      [] token.atom.a = "String" -> {token.atom.raw_data}
      [] token.atom.a = "Ident" -> {token.atom.text}
      [] token.atom.a = "Decimal" -> {token.atom.raw_integral, token.atom.raw_fractional}
      [] OTHER -> {token.atom.dat}

\* the tokens a call has returned, alone or in an element
ReturnedTokens ==
    IF result.tag # "Some" THEN <<>>
    ELSE IF owner = "Tokenizer" THEN <<result.tok>>
    ELSE Flatten(result.el)

HasDataError(ret) ==
    \/ IsErr(ret, "DataError")
    \/ IsErr(ret, "TokenizerError") /\ ret.err.cause.e = "DataError"

\* C28: for every input that is valid UTF-8 and every configuration, in every
\* reachable tokenizer state the byte offset is at most the buffer length and
\* lies on a code-point boundary, so no decode error arises: no `expect` of
\* Tokenizer::next or slice_from fails (every text sliced is valid UTF-8) and no
\* call returns DataError.
C28_NoDecodeError ==
    (owner \in {"Tokenizer", "Parser"} /\ IsUtf8(tokenizer.data)) =>
      /\ tokenizer.index <= Len(tokenizer.data)
      /\ OnBoundary(tokenizer.data, tokenizer.index)
      /\ result.tag # "Panic"
      /\ ~HasDataError(result)
      /\ LET toks == ReturnedTokens
         IN  \A i \in 1..Len(toks) :
                \A text \in TokenTexts(toks[i].inner) : IsUtf8(text)

\* `é²`: the first call returns the identifier of two bytes and leaves the offset
\* between it and the next character of two bytes
C28_Witness ==
    /\ owner = "Tokenizer"
    /\ tokenizer.data = <<195, 169, 194, 178>>
    /\ IsUtf8(tokenizer.data)
    /\ tokenizer.index = 2
    /\ result.tag = "Some"
    /\ TokenTexts(result.tok.inner) = {<<195, 169>>}

(***************************************************************************)
(* C29.  The order in which next_char classifies its input, stated on the   *)
(* bytes: the payload bits of the leading byte and of the bytes after it.   *)
(***************************************************************************)
DecoderCalled == owner = "Decoder" /\ decoder.ret.tag # "Start"

\* the value assembled from the w bytes at offset off: the leading byte without
\* its length marker, then six bits of each following byte
RECURSIVE Assembled(_, _, _, _)
Assembled(data, off, k, acc) ==
    IF k = 0 THEN acc
    ELSE Assembled(data, off + 1, k - 1, acc * 64 + (data[off + 1] % 64))

LeadingBits(h, w) ==
    CASE w = 1 -> h
      [] w = 2 -> h - 192
      [] w = 3 -> h - 224
      [] w = 4 -> h - 240

AssembledAt(data, off, w) ==
    Assembled(data, off + 1, w - 1, LeadingBits(data[off + 1], w))

IsScalar(c) == c \in 0..55295 \/ c \in 57344..1114111

\* C29: next_char classifies every (buffer, offset) input with this precedence:
\* offset equal to the length gives end-of-stream (no error); offset beyond the
\* length gives EmptyDataStream; otherwise a leading byte whose width-table entry
\* is 0 gives InvalidUtf8Sequence; otherwise fewer remaining bytes than the table
\* width gives IncompleteUtf8Sequence (even if the bytes present are not
\* continuation bytes); otherwise any following byte not of the form 10xxxxxx
\* gives InvalidUtf8ContByte; otherwise an assembled value that is not a Unicode
\* scalar (surrogate or above 0x10FFFF) gives InvalidUtf8Sequence.
C29_DecodePrecedence ==
    DecoderCalled =>
      LET data == decoder.data
          off == decoder.index
          ret == decoder.ret
          w == utf8_char_width(data[off + 1])
      IN  CASE off = Len(data) -> ret = [tag |-> "None"]
            [] off > Len(data) -> ret = [tag |-> "Err", err |-> "EmptyDataStream"]
            [] off < Len(data) /\ w = 0 ->
                 ret = [tag |-> "Err", err |-> "InvalidUtf8Sequence"]
            [] off < Len(data) /\ w > 0 /\ Len(data) - off < w ->
                 ret = [tag |-> "Err", err |-> "IncompleteUtf8Sequence",
                        byte |-> data[off + 1]]
            [] off < Len(data) /\ w > 0 /\ Len(data) - off >= w
                 /\ (\E k \in 2..w : data[off + k] \notin ContBytes) ->
                 ret = [tag |-> "Err", err |-> "InvalidUtf8ContByte"]
            [] off < Len(data) /\ w > 0 /\ Len(data) - off >= w
                 /\ (\A k \in 2..w : data[off + k] \in ContBytes)
                 /\ ~IsScalar(AssembledAt(data, off, w)) ->
                 ret = [tag |-> "Err", err |-> "InvalidUtf8Sequence"]
            [] OTHER -> ret.tag = "Some"

\* after `A`: a leading byte of width 3 followed by one byte that is no
\* continuation byte is an incomplete sequence
C29_Witness ==
    /\ DecoderCalled
    /\ decoder.data = <<65, 224, 65>>
    /\ decoder.index = 1
    /\ decoder.ret = [tag |-> "Err", err |-> "IncompleteUtf8Sequence", byte |-> 224]

C31_EndOfStreamAbsorbing ==
    /\ \A i \in 1..Len(Returns) : \A j \in (i + 1)..Len(Returns) :
         \/ Returns[i].tag = "None"
         \/ owner = "Parser" /\ IsErr(Returns[i], "UnfinishedGroup")
         => Returns[j].tag = "None"
    /\ owner = "Tokenizer" /\ history # <<>> /\ history[Len(history)].tag = "None"
         => /\ tokenizer.index = before.index
            /\ tokenizer.position = before.position

\* `a` and a line feed: the token, the no-token result of the call that skips the
\* line feed, and a later call that returns no token from the end of the buffer
C31_Witness ==
    /\ owner = "Tokenizer"
    /\ tokenizer.data = <<97, 10>>
    /\ Len(Returns) = 3
    /\ Returns[1].tag = "Some"
    /\ Returns[2].tag = "None"
    /\ Returns[3].tag = "None"
    /\ before.index = 2
    /\ tokenizer.index = 2
    /\ tokenizer.position = [line |-> 2, col |-> 0]

(***************************************************************************)
(* C32.  The raw digits of an Integral token against the digits of its      *)
(* base, and what its conversion can fail with.                             *)
(***************************************************************************)
\* the digits data.rs documents for the base
DigitsOfBase(base) ==
    CASE base = "Binary" -> {ChZero, ChOne}
      [] base = "Decimal" -> AsciiDigitBytes
      [] base = "Hexadecimal" -> HexDigitBytes

\* C32: every Integral token the tokenizer returns has raw digits made only of
\* the digits of its base (0-1 for Binary, ASCII 0-9 for Decimal, ASCII hex digits
\* for Hexadecimal) and `_`, and the conversion of the token fails only by
\* overflow of the target width.
C32_IntegralDigitsValid ==
    /\ owner = "Tokenizer"
    /\ result.tag = "Some"
    /\ result.tok.inner.t = "Atom"
    /\ result.tok.inner.atom.a = "Integral"
    => LET anum == result.tok.inner.atom
       IN  /\ \A k \in 1..Len(anum.dat) :
                anum.dat[k] \in DigitsOfBase(anum.base) \cup {ChUnderscore}
           /\ converted.tag = "Some" /\ converted.to_u64.tag = "Err"
                => converted.to_u64.kind = "PosOverflow"

====
